---- MODULE Spec2Model ----
(***************************************************************************)
(* State-machine model of the transfer drivers of the video archive        *)
(* automation: run_dailymotion.py (one destination, persisted rate-limit   *)
(* pause), run_year.py (two destinations C2 then C3; the flow of year      *)
(* 2003, Rumble + Dailymotion), and the two watchers                       *)
(* (pCloud -> Bilibili, Internxt -> Icedrive), together with the uploaders *)
(* and the downloader they call.                                           *)
(*                                                                         *)
(* Time is counted in hours.  The vendor services, the file system under   *)
(* a process kill and the external yt-dlp tool are the environment: their  *)
(* answers are drawn nondeterministically from small sets.                 *)
(***************************************************************************)
EXTENDS Integers, Sequences, FiniteSets, TLC

\* ------------------------------------------------------------------ bounds
MaxLen   == 3     \* longest playlist listing of run_dailymotion
MaxLenYear == 2   \* longest playlist listing of run_year
MaxFiles == 4     \* most files in a watched folder
MaxKills == 1     \* process kills per behaviour
MaxRuns  == 2     \* runs of a pipeline / poll cycles of a watcher
MaxTime  == 36    \* clock horizon, hours
TickHours == 12   \* granularity with which the clock advances
MaxRecords == 2   \* most complete records in an archive file read as text
IdLen    == 2     \* characters of an id in an archive file read as text
MaxSheetRows == 3  \* rows of the worksheet at which calls stop
PlaylistLen == 2   \* videos of a playlist whose ids are extracted
MaxPasses == 2     \* runs of a script over that playlist
MaxFileSize == 5   \* bytes of the largest file of a TUS upload
TUS_CHUNK == 2     \* bytes of a chunk (CHUNK_SIZE, scaled to the file sizes)
MaxTotal == 5      \* videos of the playlist whose milestones are notified

\* ------------------------------------------------------- program constants
MAX_DOWNLOAD_RETRIES == 2
MAX_UPLOAD_RETRIES   == 3
RETRY_BASE_DELAY     == 30
MAX_RETRIES          == 3
RETRY_DELAY          == 30
COOLDOWN_HOURS       == 24
HOURS_PER_DAY        == 24
MAX_UPLOADS_PER_DAY  == 3
BILI_MAX_RETRIES     == 2
BILI_RETRY_DELAY     == 60
ICE_MAX_RETRIES      == 3
ICE_RETRY_DELAY      == 30

None    == "None"
\* The rate-limit state file: absent, unparsable, or the saved JSON object.
NoFile      == [file |-> "absent"]
CorruptFile == [file |-> "corrupt"]
OK      == "ok"
RATE_LIMITED == "RATE_LIMITED"

IdSeq == <<"A", "B", "C", "D", "E">>
Ids   == {IdSeq[k] : k \in 1..Len(IdSeq)}
Rank(x) == CHOOSE n \in 1..Len(IdSeq) : IdSeq[n] = x

Min(a, b) == IF a < b THEN a ELSE b

\* A playlist may list the same video id several times.  Listings are taken
\* up to renaming of ids: the k-th new id of a listing is IdSeq[k].
Canon(s) == \A k \in 1..Len(s) :
              Rank(s[k]) <= Cardinality({s[j] : j \in 1..(k-1)}) + 1
Playlists(n) == {s \in UNION {[1..m -> Ids] : m \in 1..n} : Canon(s)}
\* A cloud folder lists every file id once.
Folders   == {SubSeq(IdSeq, 1, n) : n \in 1..Min(MaxFiles, Len(IdSeq))}

Progs == {"run_dailymotion", "run_year", "watcher_pcloud", "watcher_internxt"}
Pipelines == {"run_dailymotion", "run_year"}
Watchers  == {"watcher_pcloud", "watcher_internxt"}
AllDests  == {"Rumble", "Dailymotion", "Bilibili", "Icedrive"}

\* Destinations of a program in upload order (run_year: YEAR_FLOW["2003"]).
Dests(p) == CASE p = "run_dailymotion"  -> <<"Dailymotion">>
              [] p = "run_year"         -> <<"Rumble", "Dailymotion">>
              [] p = "watcher_pcloud"   -> <<"Bilibili">>
              [] p = "watcher_internxt" -> <<"Icedrive">>

VARIABLES
  prog, entries, BILIBILI_ENABLED,        \* what runs, the listing, mode
  archive, rlState, mp4, part,            \* disk
  pc, i, d, dl_attempt, done_ids, uploaded_count,  \* process memory: driver
  attempt, sleeps, lastAns, upRes, second, wake,   \* uploader / dispatcher
  new_videos, shutdown, daily_count, daily_date, status,  \* watcher memory
  now, kills, run,                        \* environment
  atLoad, dlFailed, failNotified, failAfterRL, \* history of the current run / item
  okEver, okDay, rlAt, rlFor, crashed, okAfter, allIn0, \* history of the behaviour
  fmt, records, archive_text, loaded,     \* an archive file as text, and its load
  wpc, wi,                              \* two pipelines run at the same time
  jobs, written,                        \* two jobs and the checkpoint files they open
  GOOGLE_SHEET_URL, CellNotFound, has_tab, worksheet, call, \* the progress sheet
  exe, argv, environ, epc, targets, started, missing, exit_code, \* start and exit of a script
  ipg, video_urls, vid_ids, ckpt, seen, pos, pass, skipped, uploaded, \* checkpoint ids of a playlist
  tpc, file_size, offset, fpos, sent, tret, \* a TUS upload
  mpc, total_videos, DL_ARCHIVE, mk, downloaded, processed_count, hit_milestones, notified, count_at_start \* milestones of a run

textv == <<fmt, records, archive_text, loaded>>
concv == <<wpc, wi>>
namev == <<jobs, written>>
sheetv == <<GOOGLE_SHEET_URL, CellNotFound, has_tab, worksheet, call>>
exitv == <<exe, argv, environ, epc, targets, started, missing, exit_code>>
idv == <<ipg, video_urls, vid_ids, ckpt, seen, pos, pass, skipped, uploaded>>
tusv == <<tpc, file_size, offset, fpos, sent, tret>>
milev == <<mpc, total_videos, DL_ARCHIVE, mk, downloaded, processed_count, hit_milestones, notified, count_at_start>>
cfgv  == <<prog, entries, BILIBILI_ENABLED, textv, concv, namev, sheetv, exitv, idv, tusv, milev>>
disk  == <<archive, rlState, mp4, part>>
drv   == <<i, d, dl_attempt, done_ids, uploaded_count>>
upv   == <<attempt, sleeps, lastAns, upRes, second>>
wmem  == <<new_videos, shutdown, daily_count, daily_date, status>>
envv  == <<now, kills, run>>
hist  == <<atLoad, dlFailed, failNotified, failAfterRL, okEver, okDay, rlAt, rlFor, crashed, okAfter, allIn0>>
vars  == <<cfgv, disk, pc, drv, upv, wake, wmem, envv, hist>>

NoIds == [x \in AllDests |-> {}]
NoCount == [x \in AllDests |-> 0]

\* The item the driver is working on.
cur  == IF prog \in Watchers THEN new_videos[i] ELSE entries[i]
dest == Dests(prog)[d]

\* No upload to Bilibili has succeeded on any calendar date.
NoUploadDay == [date |-> -1, n |-> 0]

\* The disk and the memory of a process before anything ran.
ProcessStart ==
  /\ archive = NoIds /\ rlState = NoFile
  /\ mp4 = [v \in Ids |-> "none"] /\ part = {}
  /\ pc = "start" /\ i = 1 /\ d = 1 /\ dl_attempt = 1 /\ done_ids = NoIds
  /\ uploaded_count = NoCount
  /\ attempt = 1 /\ sleeps = <<>> /\ lastAns = None /\ upRes = None
  /\ second = FALSE /\ wake = 0
  /\ new_videos = <<>> /\ shutdown = FALSE
  /\ daily_count = 0 /\ daily_date = -1 /\ status = "checking"
  /\ now = 0 /\ kills = 0 /\ run = 1
  /\ atLoad = NoIds /\ dlFailed = None /\ failNotified = {}
  /\ failAfterRL = FALSE
  /\ okEver = {} /\ okDay = NoUploadDay
  /\ rlAt = [x \in AllDests |-> -1] /\ rlFor = None
  /\ crashed = <<None, None>> /\ okAfter = 0 /\ allIn0 = FALSE

Init ==
  /\ prog \in Progs
  /\ entries \in CASE prog = "run_dailymotion" -> Playlists(MaxLen)
                   [] prog = "run_year"        -> Playlists(MaxLenYear)
                   [] OTHER                    -> Folders
  /\ BILIBILI_ENABLED \in (IF prog = "watcher_pcloud" THEN BOOLEAN ELSE {TRUE})
  /\ fmt = None /\ records = <<>> /\ archive_text = NoFile
  /\ loaded = [read |-> FALSE, ids |-> {}]
  /\ wpc = <<>> /\ wi = <<>>
  /\ jobs = <<>> /\ written = <<>>
  /\ GOOGLE_SHEET_URL = "" /\ CellNotFound = TRUE /\ has_tab = FALSE /\ worksheet = <<>>
  /\ call = [video_url |-> None, platform |-> None]
  /\ exe = None /\ argv = <<>> /\ environ = {} /\ epc = None /\ targets = <<>>
  /\ started = {} /\ missing = {} /\ exit_code = <<>>
  /\ ipg = None /\ video_urls = <<>> /\ vid_ids = <<>> /\ ckpt = {} /\ seen = {}
  /\ pos = 0 /\ pass = 0 /\ skipped = {} /\ uploaded = {}
  /\ tpc = None /\ file_size = 0 /\ offset = 0 /\ fpos = 0
  /\ sent = [offset |-> -1, pos |-> -1] /\ tret = None
  /\ mpc = None /\ total_videos = 0 /\ DL_ARCHIVE = {} /\ mk = 1 /\ downloaded = {}
  /\ processed_count = 0 /\ hit_milestones = <<>> /\ notified = <<>>
  /\ count_at_start = 0
  /\ ProcessStart

\* A fresh process: everything a script keeps in memory is back at its
\* start value; the disk is what the previous process left.
FreshMemory ==
  /\ pc' = "start" /\ i' = 1 /\ d' = 1 /\ dl_attempt' = 1 /\ done_ids' = NoIds
  /\ uploaded_count' = NoCount
  /\ attempt' = 1 /\ sleeps' = <<>> /\ lastAns' = None /\ upRes' = None
  /\ second' = FALSE /\ wake' = 0
  /\ new_videos' = <<>> /\ shutdown' = FALSE
  /\ daily_count' = 0 /\ daily_date' = -1 /\ status' = "checking"
  /\ atLoad' = NoIds /\ dlFailed' = None /\ failNotified' = {}
  /\ failAfterRL' = FALSE

\* ------------------------------------------------------- rate-limit state
\* Variant: resume_after is the time of the pause itself.
SaveRatelimitStateNoCooldown(video_id, paused_at) ==
  [file |-> "json", video_id |-> video_id, paused_at |-> paused_at,
   resume_after |-> paused_at]

\* run_dailymotion._save_ratelimit_state
SaveRatelimitState(video_id, paused_at) ==
  [file |-> "json", video_id |-> video_id, paused_at |-> paused_at,
   resume_after |-> paused_at + COOLDOWN_HOURS]

\* run_dailymotion._load_ratelimit_state: a missing file and a file that
\* does not parse both give None (here: NoFile).
LoadRatelimitState(f) == IF f.file = "json" THEN f ELSE NoFile

\* Variant: the state file is left in place.
ClearRatelimitStateKeep(f) == f

\* run_dailymotion._clear_ratelimit_state: os.remove when the file exists.
ClearRatelimitState(f) == NoFile

\* --------------------------------------------------------------- startup
\* run_dailymotion.main, rate-limit resume check.  When the loaded state is
\* None the file is left as it is.
StartDailymotion ==
  /\ pc = "start" /\ prog = "run_dailymotion"
  /\ LET rl_state == LoadRatelimitState(rlState) IN
       IF rl_state.file = "json"
       THEN IF rl_state.resume_after - now > 0
            THEN /\ pc' = "resume_sleep"
                 /\ wake' = now + (rl_state.resume_after - now)
                 /\ UNCHANGED rlState
            ELSE /\ pc' = "load"
                 /\ rlState' = ClearRatelimitState(rlState)
                 /\ UNCHANGED wake
       ELSE /\ pc' = "load" /\ UNCHANGED <<rlState, wake>>
  /\ UNCHANGED <<cfgv, archive, mp4, part, drv, upv, wmem, envv, hist>>

\* time.sleep(remaining) has returned: clear the state and continue.
ResumeWake ==
  /\ pc = "resume_sleep" /\ now >= wake
  /\ rlState' = ClearRatelimitState(rlState)
  /\ pc' = "load" /\ wake' = 0
  /\ UNCHANGED <<cfgv, archive, mp4, part, drv, upv, wmem, envv, hist>>

\* run_year.run_year has no resume check.
StartYear ==
  /\ pc = "start" /\ prog = "run_year"
  /\ pc' = "load"
  /\ UNCHANGED <<cfgv, disk, drv, upv, wake, wmem, envv, hist>>

\* _load_archive / "Read already uploaded": set(f.read().splitlines()).
LoadArchive ==
  /\ pc = "load"
  /\ done_ids' = archive
  /\ uploaded_count' = [x \in AllDests |-> Cardinality(archive[x])]
  /\ atLoad' = archive
  /\ i' = 1 /\ pc' = "loop"
  /\ UNCHANGED <<cfgv, disk, d, dl_attempt, upv, wake, wmem, envv,
                 dlFailed, failNotified, failAfterRL, okEver, okDay, rlAt, rlFor, crashed, okAfter, allIn0>>

\* ------------------------------------------------------------- main loop
\* Variant: the skip test is dropped.
AllDoneNever(v) == FALSE

AllDone(v) == \A k \in 1..Len(Dests(prog)) : v \in done_ids[Dests(prog)[k]]

\* Head of "for i, entry in enumerate(entries, 1)": the summary after the
\* last entry, the skip of an entry every destination has, or the start of
\* the download loop (run_dailymotion.main 153-166, run_year 249-269).
LoopHead ==
  /\ pc = "loop" /\ prog \in Pipelines
  /\ IF i > Len(entries)
     THEN /\ pc' = "done"
          /\ UNCHANGED i
     ELSE IF AllDone(cur)
          THEN /\ i' = i + 1
               /\ UNCHANGED pc
          ELSE /\ pc' = "download"
               /\ UNCHANGED i
  /\ dlFailed' = None /\ failNotified' = {}
  /\ UNCHANGED <<cfgv, disk, d, dl_attempt, done_ids, uploaded_count, upv, wake, wmem, envv,
                 atLoad, failAfterRL, okEver, okDay, rlAt, rlFor, crashed, okAfter, allIn0>>

\* ------------------------------------------------------------ downloader
CobaltOutcomes == {"complete", "broken", "refused"}
YtdlpOutcomes  == {"ok", "fail", "fail_part"}

\* downloader.download_video_cobalt: True only when a stream ran to its end;
\* a stream that breaks leaves what open(output_path, 'wb') had written.
download_video_cobalt(c, m) ==
  [ret |-> (c = "complete"),
   mp4 |-> CASE c = "complete" -> "full"
             [] c = "broken"   -> "partial"
             [] OTHER          -> m]

\* downloader.download_video_ytdlp: False only when yt-dlp exits non-zero
\* and no .mp4 / .mkv of that prefix exists.  yt-dlp keeps an existing
\* target file, and may leave a .part file when it fails.
download_video_ytdlp(y, m) ==
  [ret  |-> ~(y # "ok" /\ m = "none"),
   mp4  |-> IF y = "ok" /\ m = "none" THEN "full" ELSE m,
   part |-> (y = "fail_part")]

\* downloader.download_video: skip the download when target_mp4 exists,
\* else Cobalt, else the yt-dlp fallback; None when neither succeeded.
download_video(m, c, y) ==
  IF m # "none"
  THEN [ok |-> TRUE, mp4 |-> m, part |-> FALSE]
  ELSE LET cb == download_video_cobalt(c, m) IN
       IF cb.ret
       THEN [ok |-> TRUE, mp4 |-> cb.mp4, part |-> FALSE]
       ELSE LET yt == download_video_ytdlp(y, cb.mp4) IN
            [ok |-> yt.ret, mp4 |-> yt.mp4, part |-> yt.part]

\* "Download permanently failed": the destinations notify_upload_failed is
\* called for.  run_dailymotion calls it for Dailymotion; run_year prints,
\* counts the failure and continues.
DownloadFailedNotices(p) ==
  IF p = "run_dailymotion" THEN {"Dailymotion"} ELSE {}

\* One pass of "for dl_attempt in range(1, MAX_DOWNLOAD_RETRIES + 1)" and,
\* after the last failed one, "Download permanently failed": continue.
Download ==
  /\ pc = "download"
  /\ \E c \in CobaltOutcomes, y \in YtdlpOutcomes :
       LET r == download_video(mp4[cur], c, y) IN
       /\ mp4' = [mp4 EXCEPT ![cur] = r.mp4]
       /\ part' = IF r.part THEN part \cup {cur} ELSE part
       /\ IF r.ok
          THEN /\ pc' = "upload" /\ d' = 1 /\ dl_attempt' = 1
               /\ UNCHANGED <<i, dlFailed, failNotified>>
          ELSE IF dl_attempt < MAX_DOWNLOAD_RETRIES
               THEN /\ dl_attempt' = dl_attempt + 1
                    /\ UNCHANGED <<pc, i, d, dlFailed, failNotified>>
               ELSE /\ dlFailed' = cur
                    /\ failNotified' = DownloadFailedNotices(prog)
                    /\ i' = i + 1 /\ pc' = "loop" /\ dl_attempt' = 1
                    /\ UNCHANGED d
  /\ UNCHANGED <<cfgv, archive, rlState, done_ids, uploaded_count, upv, wake, wmem, envv,
                 atLoad, failAfterRL, okEver, okDay, rlAt, rlFor, crashed, okAfter, allIn0>>

\* ------------------------------------------------------------- uploaders
\* A call of the destination's upload function begins.
CallUploader ==
  /\ pc' = "uploading" /\ attempt' = 1 /\ sleeps' = <<>>
  /\ lastAns' = None /\ upRes' = None

\* run_year: "if not c2_already: ... c2_uploader(video_path, ...)" and its
\* C3 twin, c2_already being "vid_id in c2_done".  run_dailymotion: the
\* upload_to_dailymotion call of the while loop, with no test before it.
Upload ==
  /\ pc = "upload" /\ prog \in Pipelines /\ d <= Len(Dests(prog))
  /\ IF prog = "run_year" /\ cur \in done_ids[dest]
     THEN /\ d' = d + 1
          /\ UNCHANGED <<pc, upv>>
     ELSE /\ CallUploader /\ second' = FALSE
          /\ UNCHANGED d
  /\ failAfterRL' = FALSE
  /\ UNCHANGED <<cfgv, disk, i, dl_attempt, done_ids, uploaded_count, wake, wmem, envv, atLoad,
                 dlFailed, failNotified, okEver, okDay, rlAt, rlFor, crashed, okAfter, allIn0>>

\* A rate-limit answer of destination x is less than 24 hours old.
TooEarly(x) == rlAt[x] # -1 /\ now < rlAt[x] + COOLDOWN_HOURS

Succeeded ==
  /\ okEver' = okEver \cup {<<dest, cur>>}
  /\ okDay' = IF dest # "Bilibili" THEN okDay
              ELSE IF okDay.date = now \div HOURS_PER_DAY
                   THEN [okDay EXCEPT !.n = @ + 1]
                   ELSE [date |-> now \div HOURS_PER_DAY, n |-> 1]
  /\ okAfter' = IF crashed = <<dest, cur>> THEN okAfter + 1 ELSE okAfter

DmAnswers == {OK, RATE_LIMITED, "http4xx", "transient", "unexpected"}

\* The same delay after every failed attempt.
FlatDelay(n) == RETRY_BASE_DELAY

\* delay = RETRY_BASE_DELAY * (2 ** (attempt - 1))
BackoffDelay(n) == RETRY_BASE_DELAY * 2^(n - 1)

\* uploader_dailymotion.upload_to_dailymotion: one pass of its attempt loop.
\* "transient" is a ConnectionError, a Timeout, or an HTTPError whose status
\* is 429 or not 4xx; "unexpected" is any other exception.
DmAttempt ==
  /\ pc = "uploading" /\ dest = "Dailymotion"
  /\ \E ans \in DmAnswers :
       /\ lastAns' = ans
       /\ CASE ans = OK ->
                 /\ upRes' = OK /\ pc' = "up_ret" /\ Succeeded
                 /\ UNCHANGED <<attempt, sleeps, rlAt, rlFor>>
            [] ans = RATE_LIMITED ->
                 /\ upRes' = RATE_LIMITED /\ pc' = "up_ret"
                 /\ rlAt' = [rlAt EXCEPT ![dest] = now] /\ rlFor' = cur
                 /\ UNCHANGED <<attempt, sleeps, okEver, okDay, okAfter>>
            [] ans = "http4xx" ->
                 /\ upRes' = None /\ pc' = "up_ret"
                 /\ UNCHANGED <<attempt, sleeps, rlAt, rlFor, okEver, okDay, okAfter>>
            [] OTHER ->
                 /\ IF attempt < MAX_UPLOAD_RETRIES
                    THEN /\ sleeps' = Append(sleeps, BackoffDelay(attempt))
                         /\ attempt' = attempt + 1
                         /\ UNCHANGED <<pc, upRes>>
                    ELSE /\ upRes' = None /\ pc' = "up_ret"
                         /\ UNCHANGED <<attempt, sleeps>>
                 /\ UNCHANGED <<rlAt, rlFor, okEver, okDay, okAfter>>
  /\ UNCHANGED <<cfgv, disk, drv, second, wake, wmem, envv, atLoad, dlFailed, failNotified,
                 failAfterRL, crashed, allIn0>>

RumbleAnswers == {OK, "http4xx", "transient", "unexpected", "nocookies"}

\* uploader_rumble.upload_to_rumble: one pass of its attempt loop.  _do_upload
\* returns False for every status other than 200 ("http4xx", "transient")
\* and the loop treats False and an exception alike.
RumbleAttempt ==
  /\ pc = "uploading" /\ dest = "Rumble"
  /\ \E ans \in RumbleAnswers :
       /\ lastAns' = ans
       /\ CASE ans = OK ->
                 /\ upRes' = OK /\ pc' = "up_ret" /\ Succeeded
                 /\ UNCHANGED <<attempt, sleeps>>
            [] ans = "nocookies" ->
                 /\ upRes' = None /\ pc' = "up_ret"
                 /\ UNCHANGED <<attempt, sleeps, okEver, okDay, okAfter>>
            [] OTHER ->
                 /\ IF attempt < MAX_RETRIES
                    THEN /\ sleeps' = Append(sleeps, RETRY_DELAY)
                         /\ attempt' = attempt + 1
                         /\ UNCHANGED <<pc, upRes>>
                    ELSE /\ upRes' = None /\ pc' = "up_ret"
                         /\ UNCHANGED <<attempt, sleeps>>
                 /\ UNCHANGED <<okEver, okDay, okAfter>>
  /\ UNCHANGED <<cfgv, disk, drv, second, wake, wmem, envv, atLoad, dlFailed, failNotified,
                 failAfterRL, rlAt, rlFor, crashed, allIn0>>

\* ------------------------------------------------ after the uploader call
\* Variant: the archive write is left out.
AppendArchiveNothing(a, x, v) == a

\* "with open(archive, 'a') as f: f.write(vid_id)"
AppendArchive(a, x, v) == [a EXCEPT ![x] = @ \cup {v}]

\* Variant: a failed upload ends the item, the destinations after it are
\* passed over.
ReportAbortOnFailure(res) ==
  /\ IF res = OK
     THEN /\ archive' = AppendArchive(archive, dest, cur)
          /\ done_ids' = IF prog = "run_year"
                         THEN AppendArchive(done_ids, dest, cur)
                         ELSE done_ids
          /\ uploaded_count' = [uploaded_count EXCEPT ![dest] = @ + 1]
          /\ failAfterRL' = FALSE
          /\ d' = d + 1
     ELSE /\ failAfterRL' = (lastAns = RATE_LIMITED)
          /\ d' = Len(Dests(prog)) + 1
          /\ UNCHANGED <<archive, done_ids, uploaded_count>>
  /\ pc' = "upload"
  /\ attempt' = 1 /\ sleeps' = <<>> /\ lastAns' = None /\ upRes' = None
  /\ second' = FALSE

\* What a pipeline does with the value its upload function returned: the
\* archive append and the "Uploaded" report, or the "Failed" report.
\* run_year adds the id to c2_done / c3_done; run_dailymotion.main leaves
\* done_ids as it was read.
Report(res) ==
  /\ IF res = OK
     THEN /\ archive' = AppendArchive(archive, dest, cur)
          /\ done_ids' = IF prog = "run_year"
                         THEN AppendArchive(done_ids, dest, cur)
                         ELSE done_ids
          /\ uploaded_count' = [uploaded_count EXCEPT ![dest] = @ + 1]
          /\ failAfterRL' = FALSE
     ELSE /\ failAfterRL' = (lastAns = RATE_LIMITED)
          /\ UNCHANGED <<archive, done_ids, uploaded_count>>
  /\ pc' = "upload" /\ d' = d + 1
  /\ attempt' = 1 /\ sleeps' = <<>> /\ lastAns' = None /\ upRes' = None
  /\ second' = FALSE

\* run_dailymotion.main 184-207: a RATE_LIMITED return goes to
\* _handle_ratelimit_pause (save the state, sleep 24 hours); anything else
\* leaves the while loop and is reported.
UpRetDailymotion ==
  /\ pc = "up_ret" /\ prog = "run_dailymotion"
  /\ IF upRes = RATE_LIMITED
     THEN /\ rlState' = SaveRatelimitState(cur, now)
          /\ pc' = "rl_sleep" /\ wake' = now + COOLDOWN_HOURS
          /\ UNCHANGED <<archive, d, done_ids, uploaded_count, upv, failAfterRL>>
     ELSE /\ Report(upRes)
          /\ UNCHANGED <<rlState, wake>>
  /\ UNCHANGED <<cfgv, mp4, part, i, dl_attempt, wmem, envv, atLoad, dlFailed, failNotified,
                 okEver, okDay, rlAt, rlFor, crashed, okAfter, allIn0>>

\* _handle_ratelimit_pause after time.sleep: clear the state; the while loop
\* then calls upload_to_dailymotion for the same video again.
RatelimitWake ==
  /\ pc = "rl_sleep" /\ now >= wake
  /\ rlState' = ClearRatelimitState(rlState)
  /\ wake' = 0
  /\ CallUploader
  /\ UNCHANGED <<cfgv, archive, mp4, part, drv, second, wmem, envv, hist>>

\* run_year._upload_rumble returns what upload_to_rumble returned.
\* run_year._upload_dailymotion: on RATE_LIMITED sleep 24 hours and call
\* once more; "return dm_id if dm_id and dm_id != 'RATE_LIMITED' else None".
UpRetYear ==
  /\ pc = "up_ret" /\ prog = "run_year"
  /\ IF upRes = RATE_LIMITED /\ ~second
     THEN /\ pc' = "year_sleep" /\ wake' = now + COOLDOWN_HOURS
          /\ UNCHANGED <<archive, d, done_ids, uploaded_count, upv, failAfterRL>>
     ELSE /\ Report(IF upRes = RATE_LIMITED THEN None ELSE upRes)
          /\ UNCHANGED wake
  /\ UNCHANGED <<cfgv, rlState, mp4, part, i, dl_attempt, wmem, envv, atLoad,
                 dlFailed, failNotified, okEver, okDay, rlAt, rlFor, crashed, okAfter, allIn0>>

\* The second upload_to_dailymotion call of run_year._upload_dailymotion.
YearWake ==
  /\ pc = "year_sleep" /\ now >= wake
  /\ wake' = 0 /\ second' = TRUE
  /\ CallUploader
  /\ UNCHANGED <<cfgv, disk, drv, wmem, envv, hist>>

\* Variant: the item is left without the removal of its video file.
CleanupKeepsFile ==
  /\ pc = "upload" /\ prog \in Pipelines /\ d > Len(Dests(prog))
  /\ i' = i + 1 /\ d' = 1 /\ pc' = "loop"
  /\ UNCHANGED <<cfgv, disk, dl_attempt, done_ids, uploaded_count, upv, wake, wmem, envv, hist>>

\* "Clean up": os.remove of the video file (and of its sidecar files, which
\* are not represented here); a yt-dlp .part file is not among them.
Cleanup ==
  /\ pc = "upload" /\ prog \in Pipelines /\ d > Len(Dests(prog))
  /\ mp4' = [mp4 EXCEPT ![cur] = "none"]
  /\ i' = i + 1 /\ d' = 1 /\ pc' = "loop"
  /\ UNCHANGED <<cfgv, archive, rlState, part, dl_attempt, done_ids, uploaded_count, upv, wake,
                 wmem, envv, hist>>

\* --------------------------------------------------------------- watchers
\* run_watcher: the first pass of "while not _shutdown".
StartWatcher ==
  /\ pc = "start" /\ prog \in Watchers
  /\ pc' = "w_cycle" /\ status' = "checking"
  /\ UNCHANGED <<cfgv, disk, drv, upv, wake, new_videos, shutdown, daily_count,
                 daily_date, envv, hist>>

\* Variant: every script only sets a flag on SIGTERM / SIGINT.
SignalDispositionFlag(p) == "flag"

\* What SIGTERM / SIGINT does to a script.  The watchers install
\* _signal_handler for both; the pipeline scripts install no handler, so
\* SIGTERM ends the process and SIGINT raises KeyboardInterrupt, which no
\* "except Exception" of the scripts catches.
SignalDisposition(p) == IF p \in Watchers THEN "flag" ELSE "terminate"

\* SIGTERM / SIGINT: _signal_handler sets _shutdown.
Signal ==
  /\ SignalDisposition(prog) = "flag" /\ ~shutdown
  /\ pc \in {"w_cycle", "w_item", "uploading", "up_ret", "w_idle"} \cup
           {"resume_sleep", "rl_sleep", "year_sleep"}
  /\ shutdown' = TRUE
  /\ UNCHANGED <<cfgv, disk, pc, drv, upv, wake, new_videos, daily_count,
                 daily_date, status, envv, hist>>

\* Variant: the known ids are not filtered out.
NewVideosAll(listing, known) == listing

\* "new_videos = [v for v in videos if id not in known_ids]"
NewVideos(listing, known) == SelectSeq(listing, LAMBDA v : v \notin known)

\* check_and_transfer up to its for loop: load the archive, list the folder,
\* keep the files whose id is not a key of the archive.
CheckAndTransfer ==
  /\ pc = "w_cycle" /\ ~shutdown
  /\ done_ids' = archive /\ atLoad' = archive
  /\ UNCHANGED uploaded_count
  /\ new_videos' = NewVideos(entries, archive[dest])
  /\ i' = 1 /\ status' = "checking"
  /\ pc' = IF new_videos' = <<>> THEN "w_idle" ELSE "w_item"
  /\ UNCHANGED <<cfgv, disk, d, dl_attempt, upv, wake, shutdown, daily_count,
                 daily_date, envv, dlFailed, failNotified, failAfterRL, okEver, okDay, rlAt, rlFor, crashed,
                 okAfter, allIn0>>

\* The finally clause of watcher_pcloud_to_bilibili.transfer_file:
\*   if os.path.exists(local_path) and (not BILIBILI_ENABLED or success)
\* "raise" is the UnboundLocalError of reading success before it was bound;
\* an exception raised in finally replaces the pending return.
FinallyPcloud(exists, enabled, success) ==
  IF ~exists THEN "keep"
  ELSE IF ~enabled THEN "remove"
  ELSE IF success = "unbound" THEN "raise"
  ELSE IF success = "true" THEN "remove"
  ELSE "keep"

\* The finally clause of watcher_internxt_to_icedrive.transfer_file.
FinallyInternxt(exists) == IF exists THEN "remove" ELSE "keep"

Finally(exists, success) ==
  IF prog = "watcher_pcloud"
  THEN FinallyPcloud(exists, BILIBILI_ENABLED, success)
  ELSE FinallyInternxt(exists)

\* Variant: the exception of the finally clause is not caught and ends
\* run_watcher.
EndTransferUncaught(m, success) ==
  LET f == Finally(m # "none", success) IN
  /\ mp4' = [mp4 EXCEPT ![cur] = IF f = "remove" THEN "none" ELSE m]
  /\ IF f = "raise"
     THEN /\ pc' = "stopped" /\ UNCHANGED <<i, status>>
     ELSE /\ pc' = "w_item" /\ i' = i + 1 /\ UNCHANGED status

\* transfer_file has ended with the file in state m on disk: the finally
\* clause runs; the for loop of check_and_transfer goes on, or the
\* exception of the finally clause leaves check_and_transfer and run_watcher
\* records status 'error'.
EndTransfer(m, success) ==
  LET f == Finally(m # "none", success) IN
  /\ mp4' = [mp4 EXCEPT ![cur] = IF f = "remove" THEN "none" ELSE m]
  /\ IF f = "raise"
     THEN /\ pc' = "w_idle" /\ status' = "error" /\ UNCHANGED i
     ELSE /\ pc' = "w_item" /\ i' = i + 1 /\ UNCHANGED status

WatcherDownloads == {"ok", "fail_link", "fail_stream"}

\* Variant: the for loop ends only at the end of the list.
LoopEndsAtLast(flag, k, n) == k > n

\* "for i, video in enumerate(new_videos, 1): if _shutdown: break"
LoopEnds(flag, k, n) == flag \/ k > n

\* One pass of "for i, video in enumerate(new_videos, 1)": the shutdown
\* break or the end of the list, else transfer_file up to the upload call.
\* pcloud_client.download_file removes the local file when the stream
\* fails ("fail_stream") and does not touch it when no link is obtained.
TransferFile ==
  /\ pc = "w_item" /\ prog \in Watchers
  /\ IF LoopEnds(shutdown, i, Len(new_videos))
     THEN /\ pc' = "w_idle" /\ status' = "idle"
          /\ UNCHANGED <<archive, mp4, i, upv>>
     ELSE \E r \in WatcherDownloads :
            CASE r = "ok" /\ prog = "watcher_pcloud" /\ ~BILIBILI_ENABLED ->
                   /\ archive' = AppendArchive(archive, dest, cur)
                   /\ EndTransfer("full", "true")
                   /\ UNCHANGED upv
              [] r = "ok" /\ ~(prog = "watcher_pcloud" /\ ~BILIBILI_ENABLED) ->
                   /\ mp4' = [mp4 EXCEPT ![cur] = "full"]
                   /\ CallUploader
                   /\ UNCHANGED <<archive, i, second, status>>
              [] OTHER ->
                   /\ EndTransfer(IF r = "fail_stream" THEN "none" ELSE mp4[cur],
                                  "unbound")
                   /\ UNCHANGED <<archive, upv>>
  /\ UNCHANGED <<cfgv, rlState, part, d, dl_attempt, done_ids, uploaded_count, wake, new_videos,
                 shutdown, daily_count, daily_date, envv, hist>>

\* bilibili_client._check_daily_limit: the counter after the date check, for
\* the calendar date of the clock.
Today == now \div HOURS_PER_DAY
DailyCount == IF daily_date # Today THEN 0 ELSE daily_count

BiliAnswers == {OK, "fail", "nocookies"}

\* bilibili_client.upload_to_bilibili: the checks before the attempt loop
\* (has_credentials, _check_daily_limit) and one pass of the loop.  At the
\* daily limit it returns "RATE_LIMITED" without an attempt.
BiliAttempt ==
  /\ pc = "uploading" /\ dest = "Bilibili"
  /\ \E ans \in BiliAnswers :
       IF attempt = 1 /\ ans = "nocookies"
       THEN /\ lastAns' = ans /\ upRes' = None /\ pc' = "up_ret"
            /\ UNCHANGED <<attempt, sleeps, daily_count, daily_date, rlAt, rlFor,
                           okEver, okDay, okAfter>>
       ELSE /\ ans # "nocookies"
            /\ daily_date' = Today
            /\ IF attempt = 1 /\ DailyCount >= MAX_UPLOADS_PER_DAY
               THEN /\ lastAns' = RATE_LIMITED /\ upRes' = RATE_LIMITED
                    /\ pc' = "up_ret"
                    /\ daily_count' = DailyCount
                    /\ rlAt' = [rlAt EXCEPT ![dest] = now] /\ rlFor' = cur
                    /\ UNCHANGED <<attempt, sleeps, okEver, okDay, okAfter>>
               ELSE /\ lastAns' = ans
                    /\ IF ans = OK
                       THEN /\ daily_count' = DailyCount + 1
                            /\ upRes' = OK /\ pc' = "up_ret" /\ Succeeded
                            /\ UNCHANGED <<attempt, sleeps>>
                       ELSE /\ daily_count' = DailyCount
                            /\ IF attempt < BILI_MAX_RETRIES
                               THEN /\ sleeps' = Append(sleeps, BILI_RETRY_DELAY)
                                    /\ attempt' = attempt + 1
                                    /\ UNCHANGED <<pc, upRes>>
                               ELSE /\ upRes' = None /\ pc' = "up_ret"
                                    /\ UNCHANGED <<attempt, sleeps>>
                            /\ UNCHANGED <<okEver, okDay, okAfter>>
                    /\ UNCHANGED <<rlAt, rlFor>>
  /\ UNCHANGED <<cfgv, disk, drv, second, wake, new_videos, shutdown, status,
                 envv, atLoad, dlFailed, failNotified, failAfterRL, crashed, allIn0>>

IceAnswers == {OK, "http401", "transient", "noauth"}

\* icedrive_client.upload_file: one pass of its attempt loop.  401 and 403
\* return False at once; any other status and any exception are retried.
IceAttempt ==
  /\ pc = "uploading" /\ dest = "Icedrive"
  /\ \E ans \in IceAnswers :
       /\ ans = "noauth" => attempt = 1
       /\ lastAns' = ans
       /\ CASE ans = OK ->
                 /\ upRes' = OK /\ pc' = "up_ret" /\ Succeeded
                 /\ UNCHANGED <<attempt, sleeps>>
            [] ans \in {"http401", "noauth"} ->
                 /\ upRes' = None /\ pc' = "up_ret"
                 /\ UNCHANGED <<attempt, sleeps, okEver, okDay, okAfter>>
            [] OTHER ->
                 /\ IF attempt < ICE_MAX_RETRIES
                    THEN /\ sleeps' = Append(sleeps, ICE_RETRY_DELAY)
                         /\ attempt' = attempt + 1
                         /\ UNCHANGED <<pc, upRes>>
                    ELSE /\ upRes' = None /\ pc' = "up_ret"
                         /\ UNCHANGED <<attempt, sleeps>>
                 /\ UNCHANGED <<okEver, okDay, okAfter>>
  /\ UNCHANGED <<cfgv, disk, drv, second, wake, wmem, envv, atLoad, dlFailed, failNotified,
                 failAfterRL, rlAt, rlFor, crashed, allIn0>>

ResetUploader ==
  /\ attempt' = 1 /\ sleeps' = <<>> /\ lastAns' = None /\ upRes' = None
  /\ second' = FALSE

\* watcher_pcloud_to_bilibili.transfer_file after upload_to_bilibili
\* returned: "RATE_LIMITED" returns False with success unbound; any other
\* result binds success = bool(result), writes archive[file_id] and saves
\* the archive, and returns True.
UpRetPcloud ==
  /\ pc = "up_ret" /\ prog = "watcher_pcloud"
  /\ IF upRes = RATE_LIMITED
     THEN /\ EndTransfer(mp4[cur], "unbound")
          /\ UNCHANGED archive
     ELSE /\ archive' = AppendArchive(archive, dest, cur)
          /\ EndTransfer(mp4[cur], IF upRes = OK THEN "true" ELSE "false")
  /\ ResetUploader
  /\ UNCHANGED <<cfgv, rlState, part, d, dl_attempt, done_ids, uploaded_count, wake, new_videos,
                 shutdown, daily_count, daily_date, envv, hist>>

\* watcher_internxt_to_icedrive.transfer_file after icedrive_upload
\* returned: False returns False; True writes archive[file_id], saves the
\* archive and returns True.
UpRetInternxt ==
  /\ pc = "up_ret" /\ prog = "watcher_internxt"
  /\ archive' = IF upRes = OK THEN AppendArchive(archive, dest, cur) ELSE archive
  /\ EndTransfer(mp4[cur], IF upRes = OK THEN "true" ELSE "false")
  /\ ResetUploader
  /\ UNCHANGED <<cfgv, rlState, part, d, dl_attempt, done_ids, uploaded_count, wake, new_videos,
                 shutdown, daily_count, daily_date, envv, hist>>

\* Every listed id is in the archive of every destination of the program.
AllArchived ==
  \A k \in 1..Len(entries) : \A n \in 1..Len(Dests(prog)) :
     entries[k] \in archive[Dests(prog)[n]]

\* run_watcher after check_and_transfer: the poll sleep (300 one-second
\* steps), then the next pass of the while loop.  Cycles that find the
\* same state again are not counted; the clock may have moved on.
NextCycle ==
  /\ pc = "w_idle" /\ ~shutdown /\ run < MaxRuns
  /\ pc' = "w_cycle" /\ run' = run + 1
  /\ \E dt \in {0, TickHours} : now + dt <= MaxTime /\ now' = now + dt
  /\ allIn0' = AllArchived
  /\ UNCHANGED <<cfgv, disk, drv, upv, wake, wmem, kills, atLoad, dlFailed, failNotified,
                 failAfterRL, okEver, okDay, rlAt, rlFor, crashed, okAfter>>

\* "if _shutdown: break" after a cycle and "while not _shutdown".
StopWatcher ==
  /\ pc \in {"w_idle", "w_cycle"} /\ shutdown
  /\ pc' = "stopped"
  /\ UNCHANGED <<cfgv, disk, drv, upv, wake, wmem, envv, hist>>

\* ------------------------------------------------------------ environment
SleepPcs == {"resume_sleep", "rl_sleep", "year_sleep"}

\* Time passes while the process is in time.sleep.
SleepTick ==
  /\ pc \in SleepPcs /\ now < wake /\ now + TickHours <= MaxTime
  /\ now' = now + TickHours
  /\ UNCHANGED <<cfgv, disk, pc, drv, upv, wake, wmem, kills, run, hist>>

\* The process is killed (SIGKILL, power loss): no handler runs.  A kill
\* during a download can leave what had been streamed so far; a kill
\* between the RATE_LIMITED return and the end of _save_ratelimit_state
\* leaves the old state file or a truncated one; a kill inside a watcher's
\* _save_archive (open(..., 'w') then json.dump) leaves a file that
\* _load_archive reads as {}.
Kill ==
  /\ pc \notin {"start", "done", "dead", "stopped"} /\ kills < MaxKills
  /\ kills' = kills + 1 /\ pc' = "dead"
  /\ crashed' = IF pc = "up_ret" /\ upRes = OK THEN <<dest, cur>> ELSE crashed
  /\ IF pc = "download" /\ mp4[cur] = "none"
     THEN \E m \in {"none", "partial"} : mp4' = [mp4 EXCEPT ![cur] = m]
     ELSE UNCHANGED mp4
  /\ IF pc = "up_ret" /\ upRes = RATE_LIMITED /\ prog = "run_dailymotion"
     THEN rlState' \in {rlState, CorruptFile}
     ELSE UNCHANGED rlState
  /\ IF pc = "up_ret" /\ upRes # RATE_LIMITED /\ prog \in Watchers
        /\ (prog = "watcher_pcloud" \/ upRes = OK)
     THEN \E a \in {archive[dest], {}} : archive' = [archive EXCEPT ![dest] = a]
     ELSE UNCHANGED archive
  /\ UNCHANGED <<cfgv, part, drv, upv, wake, wmem, now, run, atLoad, dlFailed, failNotified,
                 failAfterRL, okEver, okDay, rlAt, rlFor, okAfter, allIn0>>

\* SIGTERM / SIGINT reaches a pipeline script inside time.sleep of a
\* cooldown: the process ends there, and what is on disk stays.  (At any
\* other place the effect on the state is that of Kill.)
Terminate ==
  /\ SignalDisposition(prog) = "terminate"
  /\ pc \in SleepPcs /\ kills < MaxKills
  /\ shutdown' = TRUE /\ pc' = "dead" /\ kills' = kills + 1
  /\ UNCHANGED <<cfgv, disk, drv, upv, wake, new_videos, daily_count,
                 daily_date, status, now, run, hist>>

\* Time passes while no process runs.  Only followed while a cooldown is
\* pending: otherwise the clock has no reader.
DeadTick ==
  /\ pc = "dead" /\ now + TickHours <= MaxTime
  /\ rlState.file = "json" \/ \E x \in AllDests : TooEarly(x)
  /\ now' = now + TickHours
  /\ UNCHANGED <<cfgv, disk, pc, drv, upv, wake, wmem, kills, run, hist>>

\* The operator (or the service manager) starts the script again.
Restart ==
  /\ pc = "dead"
  /\ FreshMemory
  /\ UNCHANGED <<cfgv, disk, envv, okEver, okDay, rlAt, rlFor, crashed, okAfter, allIn0>>

\* A later run of a pipeline over the same listing.
Rerun ==
  /\ pc = "done" /\ run < MaxRuns
  /\ FreshMemory
  /\ run' = run + 1
  /\ allIn0' = AllArchived
  /\ UNCHANGED <<cfgv, disk, now, kills, okEver, okDay, rlAt, rlFor, crashed, okAfter>>

Next ==
  \/ StartDailymotion \/ ResumeWake \/ StartYear \/ LoadArchive \/ LoopHead
  \/ Download \/ Upload \/ DmAttempt \/ RumbleAttempt
  \/ UpRetDailymotion \/ RatelimitWake \/ UpRetYear \/ YearWake \/ Cleanup
  \/ StartWatcher \/ Signal \/ CheckAndTransfer \/ TransferFile
  \/ BiliAttempt \/ IceAttempt \/ UpRetPcloud \/ UpRetInternxt
  \/ NextCycle \/ StopWatcher
  \/ SleepTick \/ Kill \/ Terminate \/ DeadTick \/ Restart \/ Rerun

Spec == Init /\ [][Next]_vars

\* ====================================================== properties C1..C10
\* An upload attempt is about to be made while a rate-limit answer of its
\* destination is less than 24 hours old.  upload_to_bilibili at its daily
\* limit returns without an attempt.
EarlyAttempt ==
  /\ pc = "uploading" /\ TooEarly(dest)
  /\ ~(dest = "Bilibili" /\ attempt = 1 /\ DailyCount >= MAX_UPLOADS_PER_DAY)

\* C1: an id that was in a destination's archive when the run or the watcher
\* cycle loaded it is never handed to that destination's uploader in that
\* run or cycle.
C1_ArchivedAtLoadNeverUploaded ==
  pc = "uploading" => cur \notin atLoad[dest]

\* An upload is under way in a run whose listing holds an id that the
\* archive already had at load.
C1_Witness ==
  /\ pc = "uploading"
  /\ \E k \in 1..Len(entries) : entries[k] \in atLoad[dest]

\* C2: after a rate-limited answer of a destination at time T no upload
\* attempt is made to it before T + 24 hours.
C2_NoAttemptDuringCooldown == ~EarlyAttempt

\* C3: an item whose upload was answered rate-limited is never reported as
\* Failed.
C3_RateLimitedNeverReportedFailed == ~failAfterRL

\* C4: after a kill between the success of an upload and its archive
\* append, the item is uploaded successfully at most once more.
C4_AtMostOneDuplicate == okAfter <= 1

\* C5: an id is in a destination's archive only if an upload of it to that
\* destination has returned success.
C5_ArchivedOnlyAfterSuccess ==
  \A x \in AllDests : \A v \in archive[x] : <<x, v>> \in okEver

\* The scenario of C6: run_dailymotion over [A, B, C], one process, and
\* Dailymotion has accepted A.
C6_Scenario ==
  /\ prog = "run_dailymotion" /\ entries = <<"A", "B", "C">>
  /\ kills = 0 /\ run = 1
  /\ <<"Dailymotion", "A">> \in okEver

C7_NoRetryAfterPermanentRejection ==
  (pc \in {"uploading", "up_ret"}
     /\ lastAns \in {"http4xx", "http401", "nocookies", "noauth"}) =>
    pc = "up_ret" /\ upRes = None

\* C8: when the pipeline moves on after the last failed download attempt
\* of an item, no file of that item, complete or partial, is on disk and no
\* upload of it is under way.
C8_NoStagingFileAfterFailedDownload ==
  dlFailed # None =>
    mp4[dlFailed] = "none" /\ dlFailed \notin part /\ pc = "loop"

\* C9: a pass over the listing that was not shut down does not end while
\* items of the pass have not had their turn (when the pass ends at item i
\* without completing it, i is the last item).
C9_PassReachesEveryItem ==
  /\ pc = "done" => i > Len(entries)
  /\ (pc = "w_idle" /\ ~shutdown) => i >= Len(new_videos)

\* C10 as stated: no step of a second or later run of a pipeline changes
\* the archives or the rate-limit state or starts an upload call.
C10_SecondRunChangesNothing ==
  [][(prog \in Pipelines /\ run >= 2) =>
       (archive' = archive /\ rlState' = rlState /\ pc' # "uploading")]_vars

\* C10 amended: the same, for a run that starts with every listed id in the
\* archive of every destination.
C10_SecondRunOverArchivedListing ==
  [][(prog \in Pipelines /\ run >= 2 /\ allIn0) =>
       (archive' = archive /\ rlState' = rlState /\ pc' # "uploading")]_vars

\* A second run over a fully archived listing has reached its summary.
C10_Witness ==
  /\ prog \in Pipelines /\ run = 2 /\ allIn0 /\ pc = "done"
  /\ Len(entries) >= 2

\* C11: a shutdown signal that reaches a pipeline inside a cooldown sleep
\* ends the process at once: no pipeline that has received the signal is
\* still in the sleep (or anywhere else in its run).
C11_SignalEndsCooldownSleep ==
  (prog \in Pipelines /\ shutdown) => pc = "dead"

\* A pipeline was stopped by a signal with part of its cooldown left.
C11_Witness ==
  /\ prog \in Pipelines /\ shutdown /\ pc = "dead" /\ now < wake

\* The staging file of id v is deleted by the step.
Deleted(v) == mp4[v] # "none" /\ mp4'[v] = "none"

\* C12: a staging file is deleted only by the step that follows the last
\* destination's result for the item (a pipeline's clean-up, the end of a
\* watcher's transfer_file), never during a cooldown sleep or an upload
\* call, and never when the item's last answer was rate-limited.
C12_DeletedOnlyAfterTerminalResults ==
  [][\A v \in Ids : Deleted(v) =>
        /\ v = cur
        /\ prog \in Pipelines => pc = "upload" /\ d > Len(Dests(prog))
        /\ prog \in Watchers => pc \in {"w_item", "up_ret"}
        /\ upRes # RATE_LIMITED
        /\ ~failAfterRL]_vars

\* The staging file of a successfully uploaded id is gone and the id is not
\* in the archive of that destination.
GoneUncheckpointed ==
  \E x \in AllDests : \E v \in Ids :
     <<x, v>> \in okEver /\ mp4[v] = "none" /\ v \notin archive[x]

C14_ArchiveOnlyGrows ==
  [][\A x \in AllDests : archive[x] \subseteq archive'[x]]_vars

\* ------------------------------------------------- archive files as text
\* An archive file read back as text.  The pipelines keep one id per line;
\* the watchers keep one JSON object whose keys are the ids.  A file is
\* the complete records followed by what an interrupted write left behind.
Chars == {"a", "b"}
NL    == "\n"
TextIds == [1..IdLen -> Chars]
RecordSeqs == UNION {[1..n -> TextIds] : n \in 0..MaxRecords}
Text(t) == [file |-> "text", text |-> t]
Range(s) == {s[k] : k \in 1..Len(s)}

\* f.write(f"{vid_id}\n") for each record in turn
RECURSIVE WriteLines(_)
WriteLines(rs) ==
  IF rs = <<>> THEN <<>> ELSE Head(rs) \o <<NL>> \o WriteLines(Tail(rs))

\* What a cut write of one more line leaves: nothing, or the first
\* characters of the id.
TornLines == {SubSeq(v, 1, k) : v \in TextIds, k \in 0..(IdLen - 1)}

\* json.dump of the archive object: the keys between braces
RECURSIVE WriteMembers(_)
WriteMembers(rs) ==
  IF rs = <<>> THEN <<>>
  ELSE IF Len(rs) = 1 THEN Head(rs)
  ELSE Head(rs) \o <<",">> \o WriteMembers(Tail(rs))
SaveArchive(rs) == <<"{">> \o WriteMembers(rs) \o <<"}">>

\* The texts that hold exactly the records rs: the complete object, and
\* what a json.dump cut after the last of rs leaves (the object without its
\* closing brace, possibly with the first characters of one more member);
\* open(ARCHIVE_FILE, 'w') alone leaves the empty text.
JsonTexts(rs) ==
  {SaveArchive(rs)}
  \cup UNION {{SubSeq(SaveArchive(rs \o <<v>>), 1, k) :
                  k \in (Len(SaveArchive(rs)) - 1)
                          ..(Len(SaveArchive(rs \o <<v>>)) - 2)} :
               v \in TextIds}
  \cup (IF rs = <<>> THEN {<<>>} ELSE {})

\* str.splitlines: the text cut at every newline, a last line without
\* newline included, no empty last line.
FirstNL(t) == IF \E k \in 1..Len(t) : t[k] = NL
              THEN CHOOSE k \in 1..Len(t) :
                     t[k] = NL /\ \A j \in 1..(k-1) : t[j] # NL
              ELSE 0
RECURSIVE splitlines(_)
splitlines(t) ==
  IF t = <<>> THEN <<>>
  ELSE IF FirstNL(t) = 0 THEN <<t>>
  ELSE <<SubSeq(t, 1, FirstNL(t) - 1)>>
         \o splitlines(SubSeq(t, FirstNL(t) + 1, Len(t)))

\* run_year._load_archive, and the same read in run_dailymotion
load_archive_lines(f) ==
  IF f = NoFile THEN {} ELSE Range(splitlines(f.text))

\* json.load: the keys of the object, or an exception for a text that is
\* not one complete object.
JSONDecodeError == [raised |-> TRUE, keys |-> {}]
Parsed(ks) == [raised |-> FALSE, keys |-> ks]
RECURSIVE ParseMembers(_)
ParseMembers(t) ==
  IF Len(t) < IdLen \/ SubSeq(t, 1, IdLen) \notin TextIds THEN JSONDecodeError
  ELSE IF Len(t) = IdLen THEN Parsed({t})
  ELSE IF t[IdLen + 1] # "," THEN JSONDecodeError
  ELSE LET rest == ParseMembers(SubSeq(t, IdLen + 2, Len(t)))
       IN  IF rest.raised THEN JSONDecodeError
           ELSE Parsed({SubSeq(t, 1, IdLen)} \cup rest.keys)
json_load(t) ==
  IF Len(t) < 2 \/ t[1] # "{" \/ t[Len(t)] # "}" THEN JSONDecodeError
  ELSE IF Len(t) = 2 THEN Parsed({})
  ELSE ParseMembers(SubSeq(t, 2, Len(t) - 1))

\* the watchers' _load_archive: {} for a missing file and for any exception
load_archive_json(f) ==
  IF f = NoFile THEN {}
  ELSE IF json_load(f.text).raised THEN {}
  ELSE json_load(f.text).keys

\* The result of a load: nothing read yet, or the set that was returned.
NotLoaded == [read |-> FALSE, ids |-> {}]
Returned(ids) == [read |-> TRUE, ids |-> ids]

mainv == <<prog, entries, BILIBILI_ENABLED, milev, tusv, idv, exitv, sheetv, namev, concv, disk, pc, drv, upv, wake,
           wmem, envv, hist>>

InitLoad ==
  /\ prog = None /\ entries = <<>> /\ BILIBILI_ENABLED = TRUE
  /\ wpc = <<>> /\ wi = <<>>
  /\ jobs = <<>> /\ written = <<>>
  /\ GOOGLE_SHEET_URL = "" /\ CellNotFound = TRUE /\ has_tab = FALSE /\ worksheet = <<>>
  /\ call = [video_url |-> None, platform |-> None]
  /\ exe = None /\ argv = <<>> /\ environ = {} /\ epc = None /\ targets = <<>>
  /\ started = {} /\ missing = {} /\ exit_code = <<>>
  /\ ipg = None /\ video_urls = <<>> /\ vid_ids = <<>> /\ ckpt = {} /\ seen = {}
  /\ pos = 0 /\ pass = 0 /\ skipped = {} /\ uploaded = {}
  /\ tpc = None /\ file_size = 0 /\ offset = 0 /\ fpos = 0
  /\ sent = [offset |-> -1, pos |-> -1] /\ tret = None
  /\ mpc = None /\ total_videos = 0 /\ DL_ARCHIVE = {} /\ mk = 1 /\ downloaded = {}
  /\ processed_count = 0 /\ hit_milestones = <<>> /\ notified = <<>>
  /\ count_at_start = 0
  /\ ProcessStart
  /\ fmt \in {"lines", "json"}
  /\ records \in RecordSeqs
  /\ archive_text \in
       IF fmt = "lines"
       THEN {NoFile} \cup {Text(WriteLines(records) \o t) : t \in TornLines}
       ELSE {NoFile} \cup {Text(t) : t \in JsonTexts(records)}
  /\ (archive_text = NoFile => records = <<>>)
  /\ loaded = NotLoaded

LoadLines ==
  /\ fmt = "lines" /\ loaded = NotLoaded
  /\ loaded' = Returned(load_archive_lines(archive_text))
  /\ UNCHANGED <<mainv, fmt, records, archive_text>>

LoadJson ==
  /\ fmt = "json" /\ loaded = NotLoaded
  /\ loaded' = Returned(load_archive_json(archive_text))
  /\ UNCHANGED <<mainv, fmt, records, archive_text>>

NextLoad == LoadLines \/ LoadJson

LoadSpec == InitLoad /\ [][NextLoad]_vars

\* C15: the load of an archive file is exactly its complete records,
\* whatever an interrupted write left after them (nothing, for a missing
\* or empty file).
C15_LoadKeepsCompleteRecords ==
  loaded.read => loaded.ids = Range(records)

\* C16: a start of run_dailymotion that loads a saved pause record sleeps
\* until resume_after, the remaining part of the pause and not a new one,
\* when resume_after is still ahead, and removes the record when the sleep
\* is over; it removes the record at once, without sleeping, when
\* resume_after has passed.  No upload is called while the record is there.
C16_ResumeSleepsRemainder ==
  [][/\ (pc = "start" /\ prog = "run_dailymotion" /\ pc' # "start"
          /\ rlState.file = "json") =>
           IF rlState.resume_after > now
           THEN /\ pc' = "resume_sleep" /\ rlState' = rlState
                /\ wake' - now = rlState.resume_after - now
                /\ wake' - now <= COOLDOWN_HOURS - (now - rlState.paused_at)
           ELSE pc' = "load" /\ rlState' = NoFile /\ now' = now
     /\ (pc = "resume_sleep" /\ pc' \notin {"resume_sleep", "dead"}) =>
           /\ now >= wake /\ now' = now
           /\ pc' = "load" /\ rlState' = NoFile
     /\ (prog = "run_dailymotion" /\ pc' = "uploading") =>
           rlState'.file # "json"]_vars
C16_Witness ==
  /\ prog = "run_dailymotion" /\ pc = "resume_sleep"
  /\ rlState.file = "json" /\ rlState.paused_at < now
  /\ wake = rlState.resume_after /\ now < wake
  /\ wake - now < COOLDOWN_HOURS

\* C17: in run_dailymotion the rate-limit state record is there exactly
\* while a cooldown is pending: from the rate-limited answer on it holds
\* resume_after = the time of the answer + 24 h, no step removes or changes
\* it before resume_after, and no upload is called while it is there.
C17_RecordExactlyWhileCooldown ==
  [][/\ (prog = "run_dailymotion" /\ TooEarly("Dailymotion")
          /\ pc # "up_ret") =>
           /\ rlState.file = "json"
           /\ rlState.resume_after = rlAt["Dailymotion"] + COOLDOWN_HOURS
     /\ (rlState.file = "json" /\ rlState' # rlState) =>
           now >= rlState.resume_after
     /\ (prog = "run_dailymotion" /\ pc' = "uploading") =>
           rlState'.file # "json"]_vars

Lacks(x) == cur \notin archive[x]
YearDests == {Dests("run_year")[k] : k \in 1..Len(Dests("run_year"))}

\* run_year at the head of an item, and at the upload block of one
\* destination: the item is downloaded iff some destination lacks its
\* checkpoint, and an uploader is called iff its destination lacks it.
C18_SkipTests ==
  /\ (pc = "loop" /\ i <= Len(entries) /\ pc' # "dead"
       /\ <<pc, i>>' # <<pc, i>>) =>
        (pc' = "download" <=> \E x \in YearDests : Lacks(x))
  /\ (pc = "upload" /\ d <= Len(Dests(prog)) /\ pc' # "dead"
       /\ <<pc, d>>' # <<pc, d>>) =>
        (pc' = "uploading" <=> Lacks(dest))
  /\ (pc # "uploading" /\ pc' = "uploading") =>
        pc \in {"upload", "year_sleep"} /\ Lacks(dest)'

\* C18 as stated: run_year downloads an item iff a destination lacks its
\* checkpoint, and every item that is downloaded comes to the upload blocks,
\* where the uploader of exactly the destinations that lack it is called.
C18_UploadersOfAllLacking ==
  [][prog = "run_year" =>
       /\ C18_SkipTests
       /\ (pc = "download" /\ pc' \notin {"download", "dead"}) =>
             pc' = "upload"]_vars

\* C18 amended: the same, for the items whose download succeeds; an item
\* whose download fails MAX_DOWNLOAD_RETRIES times is left with no uploader
\* called, whatever its checkpoints.
C18_UploadersOfLackingAfterDownload ==
  [][prog = "run_year" =>
       /\ C18_SkipTests
       /\ (pc = "download" /\ pc' \notin {"download", "dead"}) =>
             \/ pc' = "upload" /\ mp4'[cur] # "none"
             \/ /\ pc' = "loop" /\ i' = i + 1
                /\ dl_attempt = MAX_DOWNLOAD_RETRIES
                /\ \E x \in YearDests : Lacks(x)]_vars

\* The second destination's uploader runs for an item that the first
\* destination had in its archive at load.
C18_Witness ==
  /\ prog = "run_year" /\ pc = "uploading" /\ dest = "Dailymotion"
  /\ cur \in atLoad["Rumble"] /\ Lacks("Dailymotion")

\* The transfer_file call that is returning raises out of its finally
\* clause, and with it check_and_transfer raises.
CycleRaises ==
  /\ prog = "watcher_pcloud" /\ pc = "up_ret" /\ upRes = RATE_LIMITED
  /\ FinallyPcloud(mp4[cur] # "none", BILIBILI_ENABLED, "unbound") = "raise"

\* C19: an exception out of check_and_transfer is recorded as status
\* 'error' and leaves the watcher at its poll sleep; status 'error' is
\* recorded only by a step that leaves a transfer for the poll sleep with
\* the item not counted; the watch loop ends only when shutdown was
\* requested; and from the poll sleep after an error the only way on, short
\* of a shutdown, is the next cycle.
C19_CycleErrorCaught ==
  [][(prog \in Watchers) =>
       /\ (CycleRaises /\ pc' \notin {"up_ret", "dead"}) =>
             pc' = "w_idle" /\ status' = "error"
       /\ (status # "error" /\ status' = "error") =>
             pc \in {"w_item", "up_ret"} /\ pc' = "w_idle" /\ i' = i
       /\ pc' = "stopped" => shutdown /\ pc \in {"w_idle", "w_cycle"}
       /\ (pc = "w_idle" /\ status = "error" /\ ~shutdown
            /\ pc' \notin {"w_idle", "dead"}) =>
             pc' = "w_cycle" /\ run' = run + 1 /\ shutdown' = FALSE]_vars

\* A cycle has started after a cycle that ended in an error.
C19_Witness ==
  /\ prog \in Watchers /\ status = "error" /\ pc = "w_cycle" /\ ~shutdown
  /\ run > 1

\* ------------------------------------------- two pipelines at the same time
\* run_rumble and run_dailymotion run as two processes over the playlist of
\* the same year.  Each goes through its listing: download_video, its
\* uploader, the clean-up of the downloaded file.  mp4 is the one download
\* directory both use.
Workers == {"run_rumble", "run_dailymotion"}

\* downloader.download_video: target_mp4 = DOWNLOAD_DIR/<video_id>.mp4,
\* whatever script calls it.
StagingPath(w, v) == v

wcur(w) == entries[wi[w]]

restv == <<prog, entries, BILIBILI_ENABLED, milev, tusv, idv, exitv, sheetv, namev, textv, archive, rlState, part, pc,
           drv, upv, wake, wmem, envv, hist>>

InitConc ==
  /\ prog = None /\ entries \in Playlists(MaxLenYear)
  /\ BILIBILI_ENABLED = TRUE
  /\ fmt = None /\ records = <<>> /\ archive_text = NoFile
  /\ loaded = [read |-> FALSE, ids |-> {}]
  /\ jobs = <<>> /\ written = <<>>
  /\ GOOGLE_SHEET_URL = "" /\ CellNotFound = TRUE /\ has_tab = FALSE /\ worksheet = <<>>
  /\ call = [video_url |-> None, platform |-> None]
  /\ exe = None /\ argv = <<>> /\ environ = {} /\ epc = None /\ targets = <<>>
  /\ started = {} /\ missing = {} /\ exit_code = <<>>
  /\ ipg = None /\ video_urls = <<>> /\ vid_ids = <<>> /\ ckpt = {} /\ seen = {}
  /\ pos = 0 /\ pass = 0 /\ skipped = {} /\ uploaded = {}
  /\ tpc = None /\ file_size = 0 /\ offset = 0 /\ fpos = 0
  /\ sent = [offset |-> -1, pos |-> -1] /\ tret = None
  /\ mpc = None /\ total_videos = 0 /\ DL_ARCHIVE = {} /\ mk = 1 /\ downloaded = {}
  /\ processed_count = 0 /\ hit_milestones = <<>> /\ notified = <<>>
  /\ count_at_start = 0
  /\ ProcessStart
  /\ wpc = [w \in Workers |-> "loop"] /\ wi = [w \in Workers |-> 1]

\* Head of the for loop of a script.
WLoop(w) ==
  /\ wpc[w] = "loop"
  /\ wpc' = [wpc EXCEPT ![w] = IF wi[w] > Len(entries) THEN "done"
                                ELSE "download"]
  /\ UNCHANGED <<wi, mp4, restv>>

\* download_video finds target_mp4 on disk and skips the download.
WSkipDownload(w) ==
  /\ wpc[w] = "download" /\ mp4[StagingPath(w, wcur(w))] # "none"
  /\ wpc' = [wpc EXCEPT ![w] = "upload"]
  /\ UNCHANGED <<wi, mp4, restv>>

\* download_video_cobalt: open(output_path, 'wb'), the stream begins.
WOpen(w) ==
  /\ wpc[w] = "download" /\ mp4[StagingPath(w, wcur(w))] = "none"
  /\ mp4' = [mp4 EXCEPT ![StagingPath(w, wcur(w))] = "partial"]
  /\ wpc' = [wpc EXCEPT ![w] = "streaming"]
  /\ UNCHANGED <<wi, restv>>

\* The stream ran to its end.  A path the other script has removed in the
\* meantime stays removed (the data went to the unlinked file); the script
\* then has no video_path and goes to the next entry.
WStreamed(w) ==
  /\ wpc[w] = "streaming"
  /\ IF mp4[StagingPath(w, wcur(w))] = "none"
     THEN /\ wpc' = [wpc EXCEPT ![w] = "loop"]
          /\ wi' = [wi EXCEPT ![w] = @ + 1]
          /\ UNCHANGED mp4
     ELSE /\ mp4' = [mp4 EXCEPT ![StagingPath(w, wcur(w))] = "full"]
          /\ wpc' = [wpc EXCEPT ![w] = "upload"]
          /\ UNCHANGED wi
  /\ UNCHANGED restv

\* The uploader of the script is called with video_path and reads the file.
WUpload(w) ==
  /\ wpc[w] = "upload"
  /\ wpc' = [wpc EXCEPT ![w] = "uploading"]
  /\ UNCHANGED <<wi, mp4, restv>>

\* The uploader has returned.
WUploaded(w) ==
  /\ wpc[w] = "uploading"
  /\ wpc' = [wpc EXCEPT ![w] = "cleanup"]
  /\ UNCHANGED <<wi, mp4, restv>>

\* "if os.path.exists(video_path): os.remove(video_path)"
WCleanup(w) ==
  /\ wpc[w] = "cleanup"
  /\ mp4' = [mp4 EXCEPT ![StagingPath(w, wcur(w))] = "none"]
  /\ wpc' = [wpc EXCEPT ![w] = "loop"]
  /\ wi' = [wi EXCEPT ![w] = @ + 1]
  /\ UNCHANGED restv

NextConc ==
  \E w \in Workers :
    \/ WLoop(w)
    \/ WSkipDownload(w)
    \/ WOpen(w)
    \/ WStreamed(w)
    \/ WUpload(w)
    \/ WUploaded(w)
    \/ WCleanup(w)

ConcSpec == InitConc /\ [][NextConc]_vars

\* A script has its staging file open for writing, is about to hand it or
\* has handed it to its uploader, or is about to remove it.
Using(w) == wpc[w] \in {"streaming", "upload", "uploading", "cleanup"}

\* C20: two pipelines that run at the same time never use the same staging
\* file at the same time.
C20_DisjointStagingFiles ==
  \A w, u \in Workers :
     (w # u /\ Using(w) /\ Using(u)) =>
        StagingPath(w, wcur(w)) # StagingPath(u, wcur(u))

\* C20, the harm: no uploader is handed a file that is not there or not
\* complete.
C20_UploadsCompleteFile ==
  \A w \in Workers :
     wpc[w] = "uploading" => mp4[StagingPath(w, wcur(w))] = "full"

\* ------------------------------------------------- checkpoint file names
\* Two pipeline processes, each one script started for one year, open
\* their checkpoint files.  A file name is the sequence of the pieces its
\* f-string puts together.
Years == {"1999", "2000", "2001", "2002", "2003", "2004"}

\* run_year.YEAR_FLOW
YEAR_FLOW ==
  [y \in Years |->
     CASE y = "1999" -> [c2 |-> "BitChute", c3 |-> "Dailymotion"]
       [] y = "2000" -> [c2 |-> "Rumble",   c3 |-> "Bilibili"]
       [] y = "2001" -> [c2 |-> "Odysee",   c3 |-> "InternetArchive"]
       [] y = "2002" -> [c2 |-> "BitChute", c3 |-> "pCloud"]
       [] y = "2003" -> [c2 |-> "Rumble",   c3 |-> "Dailymotion"]
       [] y = "2004" -> [c2 |-> "Odysee",   c3 |-> "Bilibili"]]

\* The years a script can be started for: the keys of its YEAR_CONFIG /
\* YEAR_FLOW, or its fixed YEAR.
YearsOf(script) ==
  CASE script = "run_year"          -> Years
    [] script = "run_rumble"        -> {"1999", "2000", "2001", "2002", "2003"}
    [] script = "run_bitchute"      -> {"1999", "2000", "2001", "2002", "2003"}
    [] script = "run_dailymotion"   -> {"2000", "2003"}
    [] script = "run_bitchute_2002" -> {"2002"}

Scripts == {"run_year", "run_rumble", "run_bitchute", "run_dailymotion",
            "run_bitchute_2002"}
Jobs == UNION {{[script |-> sc, year |-> y] : y \in YearsOf(sc)} : sc \in Scripts}

\* str.lower of a destination name
Lower(name) ==
  CASE name = "BitChute"        -> "bitchute"
    [] name = "Dailymotion"     -> "dailymotion"
    [] name = "Rumble"          -> "rumble"
    [] name = "Bilibili"        -> "bilibili"
    [] name = "Odysee"          -> "odysee"
    [] name = "InternetArchive" -> "internetarchive"
    [] name = "pCloud"          -> "pcloud"

\* The destinations a job uploads to.
DestsOf(job) ==
  CASE job.script = "run_year" ->
         {YEAR_FLOW[job.year].c2, YEAR_FLOW[job.year].c3}
    [] job.script = "run_rumble"      -> {"Rumble"}
    [] job.script = "run_dailymotion" -> {"Dailymotion"}
    [] OTHER                          -> {"BitChute"}

\* Variant: the year is left out of the name.
ArchiveFileNoYear(script, year, dst) ==
  CASE script = "run_year"        -> <<"archive", "_", Lower(dst), ".txt">>
    [] script = "run_rumble"      -> <<"rumble", "_", "archive", ".txt">>
    [] script = "run_dailymotion" -> <<"dm", "_", "archive", ".txt">>
    [] OTHER                      -> <<"bitchute", "_", "archive", ".txt">>

\* f'archive_{year}_{c2_name.lower()}.txt', f'rumble_archive_{YEAR}.txt',
\* f'dm_archive_{YEAR}.txt', f'bitchute_archive_{YEAR}.txt'
ArchiveFile(script, year, dst) ==
  CASE script = "run_year" ->
         <<"archive", "_", year, "_", Lower(dst), ".txt">>
    [] script = "run_rumble" ->
         <<"rumble", "_", "archive", "_", year, ".txt">>
    [] script = "run_dailymotion" ->
         <<"dm", "_", "archive", "_", year, ".txt">>
    [] OTHER ->
         <<"bitchute", "_", "archive", "_", year, ".txt">>

nrestv == <<prog, entries, BILIBILI_ENABLED, milev, tusv, idv, exitv, sheetv, textv, concv, disk, pc, drv, upv,
            wake, wmem, envv, hist>>

InitNames ==
  /\ prog = None /\ entries = <<>> /\ BILIBILI_ENABLED = TRUE
  /\ fmt = None /\ records = <<>> /\ archive_text = NoFile
  /\ loaded = [read |-> FALSE, ids |-> {}]
  /\ wpc = <<>> /\ wi = <<>>
  /\ GOOGLE_SHEET_URL = "" /\ CellNotFound = TRUE /\ has_tab = FALSE /\ worksheet = <<>>
  /\ call = [video_url |-> None, platform |-> None]
  /\ exe = None /\ argv = <<>> /\ environ = {} /\ epc = None /\ targets = <<>>
  /\ started = {} /\ missing = {} /\ exit_code = <<>>
  /\ ipg = None /\ video_urls = <<>> /\ vid_ids = <<>> /\ ckpt = {} /\ seen = {}
  /\ pos = 0 /\ pass = 0 /\ skipped = {} /\ uploaded = {}
  /\ tpc = None /\ file_size = 0 /\ offset = 0 /\ fpos = 0
  /\ sent = [offset |-> -1, pos |-> -1] /\ tret = None
  /\ mpc = None /\ total_videos = 0 /\ DL_ARCHIVE = {} /\ mk = 1 /\ downloaded = {}
  /\ processed_count = 0 /\ hit_milestones = <<>> /\ notified = <<>>
  /\ count_at_start = 0
  /\ ProcessStart
  /\ jobs \in [1..2 -> Jobs]
  /\ written = [s \in 1..2 |-> {}]

\* A job opens its checkpoint files for append.
OpenArchives(s) ==
  /\ written[s] = {}
  /\ written' = [written EXCEPT ![s] =
       {[file |-> ArchiveFile(jobs[s].script, jobs[s].year, x),
         year |-> jobs[s].year, dst |-> x] : x \in DestsOf(jobs[s])}]
  /\ UNCHANGED <<jobs, nrestv>>

NextNames == \E s \in 1..2 : OpenArchives(s)

NameSpec == InitNames /\ [][NextNames]_vars

\* Files of different (year, destination) pairs have different names.
DifferentPairsDifferentFiles ==
  \A s, t \in 1..2 : \A a \in written[s], b \in written[t] :
     <<a.year, a.dst>> # <<b.year, b.dst>> => a.file # b.file

C22_UnexpectedEndsUpload ==
  (pc \in {"uploading", "up_ret"} /\ lastAns = "unexpected") =>
    pc = "up_ret" /\ upRes = None

\* C23: when the download of an item has failed on every attempt, a failure
\* notification has been sent for exactly the destinations that lack the
\* item's checkpoint.
C23_FailureNoticePerPendingDestination ==
  dlFailed # None =>
    failNotified = {x \in AllDests :
                     /\ \E k \in 1..Len(Dests(prog)) : Dests(prog)[k] = x
                     /\ dlFailed \notin archive[x]}

\* C24: in run_year the return of the C2 uploader, whatever it is, leads
\* to the C3 block of the same item; there the C3 uploader is called when
\* C3 lacks the item's checkpoint; and a C3 success is appended to the C3
\* archive.
C24_C2FailureLeavesC3 ==
  [][(prog = "run_year") =>
       /\ (pc = "up_ret" /\ d = 1
            /\ pc' \notin {"up_ret", "year_sleep", "dead"}) =>
             pc' = "upload" /\ d' = 2 /\ i' = i
       /\ (pc = "upload" /\ d = 2 /\ Lacks(dest)
            /\ pc' \notin {"upload", "dead"}) =>
             pc' = "uploading" /\ d' = 2 /\ i' = i
       /\ (pc = "up_ret" /\ d = 2 /\ upRes = OK
            /\ pc' \notin {"up_ret", "dead"}) =>
             cur \in archive'[Dests(prog)[2]]]_vars

\* In an unkilled first run the C3 upload of an item was checkpointed
\* after its C2 upload had failed.
C24_Witness ==
  /\ prog = "run_year" /\ kills = 0 /\ run = 1
  /\ pc = "upload" /\ d > Len(Dests(prog))
  /\ cur \notin archive["Rumble"] /\ cur \in archive["Dailymotion"]

\* C25: in a run of run_year the steps of an item come in order.  An
\* uploader is called only from the upload block, with the downloaded file
\* on disk; the destination index only goes up, one at a time, after the
\* return of the uploader of the destination before or its skip; the next
\* item is taken only from the head of the loop (skip), from the last
\* failed download attempt, or from the clean-up after the last destination,
\* which has removed the file; and a download starts only at the head of
\* the loop.
C25_StepsInOrder ==
  [][(prog = "run_year" /\ pc' \notin {"dead", "start"}) =>
       /\ (pc # "uploading" /\ pc' = "uploading") =>
             /\ pc \in {"upload", "year_sleep"}
             /\ mp4[cur] # "none" /\ i' = i /\ d' = d
       /\ d' # d =>
             \/ d' = d + 1 /\ pc \in {"up_ret", "upload"} /\ i' = i
             \/ d' = 1 /\ (i' = i + 1 \/ pc = "download")
       /\ i' # i =>
             /\ i' = i + 1 /\ pc' = "loop"
             /\ \/ pc = "loop"
                \/ pc = "download" /\ dl_attempt = MAX_DOWNLOAD_RETRIES
                \/ /\ pc = "upload" /\ d > Len(Dests(prog))
                   /\ mp4'[cur] = "none"
       /\ (pc # "download" /\ pc' = "download") => pc = "loop"
       /\ (pc = "download" /\ pc' = "upload") => mp4'[cur] # "none"]_vars

\* The download of the second item is under way in an unkilled first
\* run that uploaded the first item to both destinations.
C25_Witness ==
  /\ prog = "run_year" /\ kills = 0 /\ run = 1
  /\ pc = "download" /\ i = 2 /\ entries[1] # entries[2]
  /\ \A x \in YearDests : entries[1] \in archive[x]
  /\ mp4[entries[1]] = "none"

\* C26: a pipeline comes to its final summary only from the head of the
\* loop after the last entry, and the uploaded count the summary reports for
\* each destination is the number of ids in that destination's archive.
C26_SummaryCountsArchive ==
  [][(prog \in Pipelines /\ pc # "done" /\ pc' = "done") =>
       /\ pc = "loop" /\ i > Len(entries)
       /\ \A k \in 1..Len(Dests(prog)) :
            uploaded_count'[Dests(prog)[k]] =
              Cardinality(archive'[Dests(prog)[k]])]_vars

\* ---------------------------------------------------------------------------
\* The progress sheet (notifier.py).  A worksheet is the sequence of its rows,
\* a row the function from the column numbers 1..Len(HEADERS) to the cell
\* values as the API returns them (strings).
\* ---------------------------------------------------------------------------
PLATFORM_COLUMNS ==
  [Rumble          |-> [status_col |-> 5,  link_col |-> 6],
   BitChute        |-> [status_col |-> 7,  link_col |-> 8],
   Dailymotion     |-> [status_col |-> 9,  link_col |-> 10],
   Odysee          |-> [status_col |-> 11, link_col |-> 12],
   pCloud          |-> [status_col |-> 13, link_col |-> 14],
   Internxt        |-> [status_col |-> 15, link_col |-> 16],
   Icedrive        |-> [status_col |-> 17, link_col |-> 18],
   Bilibili        |-> [status_col |-> 19, link_col |-> 20],
   Koofr           |-> [status_col |-> 21, link_col |-> 22],
   InternetArchive |-> [status_col |-> 23, link_col |-> 24]]

HEADERS ==
  <<"Number", "Name", "YouTube Status", "YouTube Link",
    "Rumble Status", "Rumble Link",
    "Bitchute Status", "Bitchute Link",
    "Dailymotion Status", "Dailymotion Link",
    "Odysee Status", "Odysee Link",
    "pCloud Status", "pCloud Link",
    "Internxt Status", "Internxt Link",
    "Icedrive Status", "Icedrive Link",
    "Bilibili Status", "Bilibili Link",
    "Koofr Status", "Koofr Link",
    "Internet Archive Status", "Internet Archive Link">>

NAME_COL == 2
URL_COL == 4
SHORT_NAME == 12

\* The arguments the callers pass: two videos, a title that is a bare video
\* id and a real title (both shorter than the 200 characters title[:200]
\* keeps), the status of a successful upload and the empty one, a link or
\* none, two known platforms and an unknown one.
SheetUrls == {"https://youtube.com/watch?v=A", "https://youtube.com/watch?v=B"}
SheetTitles == {"dQw4w9WgXcQ", "Sunday Service 1999"}
SheetStatuses == {"", "Uploaded"}
SheetLinks == {"", "https://dai.ly/x1"}
SheetPlatforms == {"Rumble", "Dailymotion", "Vimeo"}

\* The API call at which a request fails (every failure is caught by the
\* handler's outer except), "none" when all succeed.  A failure of
\* add_worksheet, find, col_values, status_cell or name_cell leaves the sheet
\* as a failure of one of the calls listed here does.
Faults == {"none", "open_by_url", "append_headers", "append_row", "link_cell",
           "cell"}

NoCall == [video_url |-> None, platform |-> None]

\* worksheet.find never matches (the index 0 stands for "not found").
findNothing(ws, query, in_column) == 0

\* worksheet.find(query, in_column): the first row whose cell equals query.
find(ws, query, in_column) ==
  LET hits == {r \in 1..Len(ws) : ws[r][in_column] = query}
  IN  IF hits = {} THEN 0 ELSE CHOOSE r \in hits : \A q \in hits : r <= q

\* worksheet.col_values(c): the column down to its last non-empty cell.
col_values(ws, c) ==
  LET filled == {r \in 1..Len(ws) : ws[r][c] # ""}
      last == IF filled = {} THEN 0
              ELSE CHOOSE r \in filled : \A q \in filled : q <= r
  IN  [r \in 1..last |-> ws[r][c]]

update_cell(ws, r, c, v) == [ws EXCEPT ![r][c] = v]

\* The row appended for a video that has none.
NewRow(ws, video_url, title, cols, status_text, link) ==
  [c \in 1..Len(HEADERS) |->
     IF c = cols.link_col THEN link
     ELSE IF c = cols.status_col THEN status_text
     ELSE IF c = URL_COL THEN video_url
     ELSE IF c = 3 THEN "Uploaded"
     ELSE IF c = NAME_COL THEN title
     ELSE IF c = 1 THEN ToString(Len(col_values(ws, 1)))
     ELSE ""]

\* The cell updates of an existing row, up to the call that fails.
UpdateRow(ws, r, title, cols, status_text, link, fault) ==
  LET s1 == IF fault = "status_cell" THEN ws
            ELSE update_cell(ws, r, cols.status_col, status_text)
      s2 == IF fault \in {"status_cell", "link_cell"} \/ link = "" THEN s1
            ELSE update_cell(s1, r, cols.link_col, link)
      current_name == s2[r][NAME_COL]
  IN  IF fault \in {"status_cell", "link_cell", "cell", "name_cell"} THEN s2
      ELSE IF /\ current_name # "" /\ Len(current_name) <= SHORT_NAME
              /\ title # "" /\ Len(title) > SHORT_NAME
           THEN update_cell(s2, r, NAME_COL, title)
           ELSE s2

sheetrestv == <<prog, entries, BILIBILI_ENABLED, milev, tusv, idv, exitv, textv, concv, namev, disk, pc,
                drv, upv, wake, wmem, envv, hist>>

InitSheet ==
  /\ prog = None /\ entries = <<>> /\ BILIBILI_ENABLED = TRUE
  /\ fmt = None /\ records = <<>> /\ archive_text = NoFile
  /\ loaded = [read |-> FALSE, ids |-> {}]
  /\ wpc = <<>> /\ wi = <<>>
  /\ jobs = <<>> /\ written = <<>>
  /\ exe = None /\ argv = <<>> /\ environ = {} /\ epc = None /\ targets = <<>>
  /\ started = {} /\ missing = {} /\ exit_code = <<>>
  /\ ipg = None /\ video_urls = <<>> /\ vid_ids = <<>> /\ ckpt = {} /\ seen = {}
  /\ pos = 0 /\ pass = 0 /\ skipped = {} /\ uploaded = {}
  /\ tpc = None /\ file_size = 0 /\ offset = 0 /\ fpos = 0
  /\ sent = [offset |-> -1, pos |-> -1] /\ tret = None
  /\ mpc = None /\ total_videos = 0 /\ DL_ARCHIVE = {} /\ mk = 1 /\ downloaded = {}
  /\ processed_count = 0 /\ hit_milestones = <<>> /\ notified = <<>>
  /\ count_at_start = 0
  /\ ProcessStart
  /\ GOOGLE_SHEET_URL \in {"", "https://docs.google.com/spreadsheets/d/1"}
  /\ CellNotFound \in BOOLEAN
  /\ has_tab = FALSE /\ worksheet = <<>> /\ call = NoCall

\* update_sheet_platform(video_url, title, platform, status, link, year).
update_sheet_platform(video_url, title, platform, status_text, link, fault) ==
  /\ Len(worksheet) <= MaxSheetRows
  /\ call' = [video_url |-> video_url, platform |-> platform]
  /\ IF GOOGLE_SHEET_URL = "" \/ status_text = ""
       THEN UNCHANGED <<has_tab, worksheet>>
     ELSE IF platform \notin DOMAIN PLATFORM_COLUMNS
       THEN UNCHANGED <<has_tab, worksheet>>
     ELSE IF fault = "open_by_url" \/ (~has_tab /\ fault = "add_worksheet")
       THEN UNCHANGED <<has_tab, worksheet>>
     ELSE IF ~has_tab /\ fault = "append_headers"
       THEN has_tab' = TRUE /\ UNCHANGED worksheet
     ELSE
       LET cols == PLATFORM_COLUMNS[platform]
           ws == IF has_tab THEN worksheet ELSE Append(worksheet, HEADERS)
           row_index == find(ws, video_url, URL_COL)
       IN  /\ has_tab' = TRUE
           /\ worksheet' =
                IF fault = "find" THEN ws
                ELSE IF row_index = 0
                  THEN IF CellNotFound /\ fault \notin {"col_values", "append_row"}
                         THEN Append(ws, NewRow(ws, video_url, title, cols,
                                                status_text, link))
                         ELSE ws
                  ELSE UpdateRow(ws, row_index, title, cols, status_text, link, fault)
  /\ UNCHANGED <<GOOGLE_SHEET_URL, CellNotFound, sheetrestv>>

NextSheet ==
  \E video_url \in SheetUrls, title \in SheetTitles, platform \in SheetPlatforms,
     status_text \in SheetStatuses, link \in SheetLinks, fault \in Faults :
    update_sheet_platform(video_url, title, platform, status_text, link, fault)

SheetSpec == InitSheet /\ [][NextSheet]_vars

\* C27: a call of update_sheet_platform for platform P and a video URL changes
\* no cell outside P's status and link columns and the Name column of the
\* first row holding that URL, removes no row, and appends a row (for that
\* URL) only when no row holds the URL yet.
C27_UpsertFrame ==
  [][call' # NoCall =>
       LET P == call'.platform
           u == call'.video_url
           known == P \in DOMAIN PLATFORM_COLUMNS
           had == \E r \in 1..Len(worksheet) : worksheet[r][URL_COL] = u
           base == IF has_tab \/ ~has_tab' THEN Len(worksheet)
                   ELSE Len(worksheet) + 1
       IN  /\ Len(worksheet') >= Len(worksheet)
           /\ \A r \in 1..Len(worksheet) : \A c \in 1..Len(HEADERS) :
                worksheet'[r][c] # worksheet[r][c] =>
                  /\ known
                  /\ r = find(worksheet, u, URL_COL)
                  /\ c \in {NAME_COL, PLATFORM_COLUMNS[P].status_col,
                            PLATFORM_COLUMNS[P].link_col}
           /\ had \/ ~known => Len(worksheet') = Len(worksheet)
           /\ Len(worksheet') <= base + 1
           /\ Len(worksheet') = base + 1 =>
                worksheet'[Len(worksheet')][URL_COL] = u
           /\ \A r, q \in 1..Len(worksheet') :
                worksheet'[r][URL_COL] = worksheet'[q][URL_COL] => r = q]_vars

\* A second platform has updated the row the first one created, and the bare
\* video id in its Name column has been replaced by the title.
C27_Witness ==
  /\ Len(worksheet) = 3
  /\ call.platform = "Dailymotion"
  /\ \E r \in 2..3 :
       /\ worksheet[r][URL_COL] = call.video_url
       /\ worksheet[r][5] = "Uploaded" /\ worksheet[r][6] = ""
       /\ worksheet[r][9] = "Uploaded" /\ worksheet[r][10] = "https://dai.ly/x1"
       /\ worksheet[r][NAME_COL] = "Sunday Service 1999"
       /\ worksheet[5 - r][9] = "" /\ worksheet[5 - r][NAME_COL] = "dQw4w9WgXcQ"

\* ---------------------------------------------------------------------------
\* Start and exit of a pipeline script: the __main__ block of run_year.py and
\* main() of run_dailymotion.py, from the command line and the environment to
\* the exit code of the process.
\* ---------------------------------------------------------------------------
StartScripts == {"run_year", "run_dailymotion"}

\* sys.argv[1:]
Argvs == {<<>>, <<"all">>, <<"1999">>, <<"2000">>, <<"2003">>, <<"2010">>}

\* sorted(YEAR_FLOW.keys())
SortedYears == <<"1999", "2000", "2001", "2002", "2003", "2004">>

DEFAULT_YEAR == "2000"

Running == <<>>
Exited(code) == <<code>>

exitrestv == <<prog, entries, BILIBILI_ENABLED, milev, tusv, idv, textv, concv, namev, sheetv,
               disk, pc, drv, upv, wake, wmem, envv, hist>>

InitExit ==
  /\ prog = None /\ entries = <<>> /\ BILIBILI_ENABLED = TRUE
  /\ fmt = None /\ records = <<>> /\ archive_text = NoFile
  /\ loaded = [read |-> FALSE, ids |-> {}]
  /\ wpc = <<>> /\ wi = <<>>
  /\ jobs = <<>> /\ written = <<>>
  /\ GOOGLE_SHEET_URL = "" /\ CellNotFound = TRUE /\ has_tab = FALSE
  /\ worksheet = <<>> /\ call = NoCall
  /\ ipg = None /\ video_urls = <<>> /\ vid_ids = <<>> /\ ckpt = {} /\ seen = {}
  /\ pos = 0 /\ pass = 0 /\ skipped = {} /\ uploaded = {}
  /\ tpc = None /\ file_size = 0 /\ offset = 0 /\ fpos = 0
  /\ sent = [offset |-> -1, pos |-> -1] /\ tret = None
  /\ mpc = None /\ total_videos = 0 /\ DL_ARCHIVE = {} /\ mk = 1 /\ downloaded = {}
  /\ processed_count = 0 /\ hit_milestones = <<>> /\ notified = <<>>
  /\ count_at_start = 0
  /\ ProcessStart
  /\ exe \in StartScripts
  /\ argv \in Argvs
  /\ environ \in SUBSET Years
  /\ epc = "main" /\ targets = <<>> /\ started = {} /\ missing = {}
  /\ exit_code = Running

\* The status the unknown target leaves the process with: run_year.py prints
\* "Unknown year" and falls off the end of the script.
UnknownYearExit == Exited(0)

\* run_year.py __main__ up to the calls of run_year.
MainRunYear ==
  /\ exe = "run_year" /\ epc = "main"
  /\ IF Len(argv) < 1
       THEN /\ epc' = "exited" /\ exit_code' = Exited(1)
            /\ UNCHANGED <<targets, missing>>
     ELSE IF argv[1] = "all"
       THEN /\ epc' = "year" /\ targets' = SortedYears
            /\ UNCHANGED <<exit_code, missing>>
     ELSE IF argv[1] \in DOMAIN YEAR_FLOW
       THEN /\ epc' = "year" /\ targets' = <<argv[1]>>
            /\ UNCHANGED <<exit_code, missing>>
       ELSE /\ epc' = "exited" /\ exit_code' = UnknownYearExit
            /\ missing' = {argv[1]}
            /\ UNCHANGED targets
  /\ UNCHANGED <<exe, argv, environ, started, exitrestv>>

\* run_dailymotion.py main() up to the playlist lookup: an argument that is
\* no key of YEAR_CONFIG leaves YEAR at its default.
MainDailymotion ==
  /\ exe = "run_dailymotion" /\ epc = "main"
  /\ LET YEAR == IF Len(argv) > 0 /\ argv[1] \in YearsOf("run_dailymotion")
                   THEN argv[1] ELSE DEFAULT_YEAR
     IN  IF YEAR \notin YearsOf("run_dailymotion")
           THEN /\ epc' = "exited" /\ exit_code' = Exited(0)
                /\ missing' = {YEAR} /\ UNCHANGED targets
           ELSE /\ epc' = "year" /\ targets' = <<YEAR>>
                /\ UNCHANGED <<exit_code, missing>>
  /\ UNCHANGED <<exe, argv, environ, started, exitrestv>>

\* One year of the script: the playlist URL is read from the environment;
\* without it the function returns, with it the transfer runs to its summary.
RunOneYear ==
  /\ epc = "year" /\ targets # <<>>
  /\ LET year == Head(targets)
     IN  IF year \notin environ
           THEN missing' = missing \cup {year} /\ UNCHANGED started
           ELSE started' = started \cup {year} /\ UNCHANGED missing
  /\ targets' = Tail(targets)
  /\ UNCHANGED <<exe, argv, environ, epc, exit_code, exitrestv>>

\* The script comes to its end.
EndOfScript ==
  /\ epc = "year" /\ targets = <<>>
  /\ epc' = "exited" /\ exit_code' = Exited(0)
  /\ UNCHANGED <<exe, argv, environ, targets, started, missing, exitrestv>>

NextExit == MainRunYear \/ MainDailymotion \/ RunOneYear \/ EndOfScript

ExitSpec == InitExit /\ [][NextExit]_vars

\* C28: a pipeline script that has run its transfers to completion exits with
\* code 0, and one that started no transfer because its configuration is
\* missing (unknown year, playlist URL not configured) exits with a non-zero
\* code.
C28_ExitCodes ==
  epc = "exited" =>
    /\ (started # {} /\ missing = {}) => exit_code = Exited(0)
    /\ (started = {} /\ missing # {}) => exit_code # Exited(0)

C30_NoSecondUploadInRun ==
  [][(prog \in Pipelines /\ pc = "uploading" /\ pc' = "up_ret" /\ upRes' = OK) =>
       ~(cur \in archive[dest] /\ cur \notin atLoad[dest])]_vars

\* C31: when a pipeline or a watcher that was never killed or rerun starts to
\* process an item (the download of a pipeline item, the transfer of a
\* watcher file), no staging file of another item, complete or partial, is
\* on disk.
StartsItem ==
  \/ prog \in Pipelines /\ pc = "download" /\ dl_attempt = 1
  \/ prog \in Watchers /\ pc = "w_item" /\ ~shutdown /\ i <= Len(new_videos)

C31_OneItemStagedAtATime ==
  (kills = 0 /\ run = 1 /\ StartsItem) =>
    \A v \in Ids \ {cur} : mp4[v] = "none" /\ v \notin part

\* C32: in a process that was never killed, download_video reports a
\* download as successful (the pipeline goes on to the upload) only when the
\* file of the item on disk is a completely downloaded one.
C32_OnlyCompleteFileReported ==
  [][(kills = 0 /\ prog \in Pipelines /\ pc = "download" /\ pc' = "upload") =>
       mp4'[cur] = "full"]_vars

\* ---------------------------------------------------------------------------
\* Checkpoint ids.  A playlist is a sequence of video URLs, one per video and
\* no two of the same video; a URL is the sequence of its parts, the last of
\* them the id of the video.  The scripts checkpoint the id they extract
\* from the URL.
\* ---------------------------------------------------------------------------
VideoIds == {"dQw4w9WgXcQ", "XzUKVV2uWcI", "9bZkp7q19f0"}

UrlForms ==
  {<<"https://www.youtube.com/watch?", "v=">>,
   <<"https://", "youtu.be/">>,
   <<"https://www.youtube.com/", "shorts/">>,
   <<"https://www.youtube.com/", "embed/">>}

VideoUrls == {f \o <<v>> : f \in UrlForms, v \in VideoIds}

VideoOf(url) == url[Len(url)]

UrlPlaylists ==
  {p \in [1..PlaylistLen -> VideoUrls] :
     \A a, b \in 1..PlaylistLen : VideoOf(p[a]) = VideoOf(p[b]) => a = b}

ID_CHARS == 11

\* re.search(r'(?:v=|youtu\.be/)([a-zA-Z0-9_-]{11})', url):
\*   vid_id = match.group(1) if match else 'unknown'
ExtractId(url) ==
  LET hits == {p \in 1..(Len(url) - 1) :
                 /\ url[p] \in {"v=", "youtu.be/"}
                 /\ Len(url[p + 1]) >= ID_CHARS}
  IN  IF hits = {} THEN "unknown"
      ELSE url[(CHOOSE p \in hits : \A q \in hits : p <= q) + 1]

IdScripts == {"run_dailymotion", "run_year"}

idrestv == <<prog, entries, BILIBILI_ENABLED, milev, tusv, textv, concv, namev, sheetv,
             exitv, disk, pc, drv, upv, wake, wmem, envv, hist>>

InitIds ==
  /\ prog = None /\ entries = <<>> /\ BILIBILI_ENABLED = TRUE
  /\ fmt = None /\ records = <<>> /\ archive_text = NoFile
  /\ loaded = [read |-> FALSE, ids |-> {}]
  /\ wpc = <<>> /\ wi = <<>>
  /\ jobs = <<>> /\ written = <<>>
  /\ GOOGLE_SHEET_URL = "" /\ CellNotFound = TRUE /\ has_tab = FALSE
  /\ worksheet = <<>> /\ call = NoCall
  /\ exe = None /\ argv = <<>> /\ environ = {} /\ epc = None /\ targets = <<>>
  /\ started = {} /\ missing = {} /\ exit_code = <<>>
  /\ tpc = None /\ file_size = 0 /\ offset = 0 /\ fpos = 0
  /\ sent = [offset |-> -1, pos |-> -1] /\ tret = None
  /\ mpc = None /\ total_videos = 0 /\ DL_ARCHIVE = {} /\ mk = 1 /\ downloaded = {}
  /\ processed_count = 0 /\ hit_milestones = <<>> /\ notified = <<>>
  /\ count_at_start = 0
  /\ ProcessStart
  /\ ipg \in IdScripts
  /\ video_urls \in UrlPlaylists
  /\ vid_ids = <<>> /\ ckpt = {} /\ seen = {} /\ pos = 0 /\ pass = 0
  /\ skipped = {} /\ uploaded = {}

\* A run starts: the ids of the entries are extracted and the archive file is
\* read into the set of done ids.
StartRun ==
  /\ pos = 0 /\ pass < MaxPasses
  /\ pass' = pass + 1
  /\ vid_ids' = [k \in 1..Len(video_urls) |-> ExtractId(video_urls[k])]
  /\ seen' = ckpt
  /\ pos' = 1
  /\ UNCHANGED <<ipg, video_urls, ckpt, skipped, uploaded, idrestv>>

\* "if vid_id in done_ids: continue" (run_year: both destinations have it).
SkipDone ==
  /\ pos \in 1..Len(video_urls) /\ vid_ids[pos] \in seen
  /\ skipped' = skipped \cup {VideoOf(video_urls[pos])}
  /\ pos' = pos + 1
  /\ UNCHANGED <<ipg, video_urls, vid_ids, ckpt, seen, pass, uploaded, idrestv>>

\* The entry is downloaded and uploaded; on success its id is appended to the
\* archive file, and run_year adds it to its set of done ids.
ProcessEntry ==
  /\ pos \in 1..Len(video_urls) /\ vid_ids[pos] \notin seen
  /\ \E success \in BOOLEAN :
       IF success
       THEN /\ ckpt' = ckpt \cup {vid_ids[pos]}
            /\ seen' = IF ipg = "run_year" THEN seen \cup {vid_ids[pos]} ELSE seen
            /\ uploaded' = uploaded \cup {VideoOf(video_urls[pos])}
       ELSE UNCHANGED <<ckpt, seen, uploaded>>
  /\ pos' = pos + 1
  /\ UNCHANGED <<ipg, video_urls, vid_ids, pass, skipped, idrestv>>

\* The loop is over; the script may be started again.
EndRun ==
  /\ pos = Len(video_urls) + 1
  /\ pos' = 0
  /\ UNCHANGED <<ipg, video_urls, vid_ids, ckpt, seen, pass, skipped, uploaded,
                 idrestv>>

NextIds == StartRun \/ SkipDone \/ ProcessEntry \/ EndRun

IdSpec == InitIds /\ [][NextIds]_vars

\* C33: two different videos of the playlist never have the same checkpoint
\* id, and a video is skipped as already done only if that video was
\* uploaded successfully before.
C33_SkippedOnlyIfUploaded ==
  /\ vid_ids # <<>> =>
       \A a, b \in 1..Len(video_urls) : vid_ids[a] = vid_ids[b] => a = b
  /\ skipped \subseteq uploaded

\* C34: in the pCloud watcher the return of upload_to_bilibili with
\* RATE_LIMITED ends transfer_file with False: the archive is left as it is,
\* the for loop of check_and_transfer goes on with the next file, and no
\* status 'error' is recorded.
C34_RateLimitedReturnsFalse ==
  [][(/\ prog = "watcher_pcloud" /\ pc = "up_ret" /\ upRes = RATE_LIMITED
      /\ pc' \notin {"up_ret", "dead"}) =>
       /\ archive' = archive
       /\ pc' = "w_item" /\ i' = i + 1
       /\ status' # "error"]_vars

\* C35: on no calendar date more than MAX_UPLOADS_PER_DAY (3) uploads to
\* Bilibili succeed, over the calls of a process and of the processes
\* started after it.
C35_AtMostThreePerDate == okDay.n <= 3

\* ---------------------------------------------------------------------------
\* A watcher process that keeps running: as long as a step of the script is
\* possible, one is taken.
\* ---------------------------------------------------------------------------
InitWatch == Init /\ prog \in Watchers

WatcherStep ==
  \/ StartWatcher \/ CheckAndTransfer \/ TransferFile
  \/ BiliAttempt \/ IceAttempt \/ UpRetPcloud \/ UpRetInternxt
  \/ NextCycle \/ StopWatcher

NextWatch == WatcherStep \/ Signal \/ Kill \/ Restart

WatchSpec == InitWatch /\ [][NextWatch]_vars /\ WF_vars(WatcherStep)

\* C36: once the shutdown flag of a watcher is set, no file transfer and no
\* upload call is started and no poll cycle begins: the for loop and the
\* poll sleep are left for the end of run_watcher, a transfer under way runs
\* to its end; and the watcher does come to the end of run_watcher (or is
\* killed).
C36_ShutdownEndsWatcher ==
  /\ [][(prog \in Watchers /\ shutdown /\ pc # "dead") =>
          /\ pc = "w_item" => pc' \in {"w_idle", "dead"}
          /\ pc \in {"w_cycle", "w_idle"} => pc' \in {"stopped", "dead"}
          /\ pc' = "uploading" => pc = "uploading"
          /\ pc' = "w_cycle" => pc = "w_cycle"
          /\ pc = "stopped" => pc' = "stopped"
          /\ mp4' # mp4 => pc \in {"uploading", "up_ret"} \/ pc' = "dead"]_vars
  /\ (prog \in Watchers /\ shutdown) ~> (pc \in {"stopped", "dead"})

\* The watcher has left its loop on the flag with files of the cycle not
\* transferred.
C36_Witness ==
  /\ prog \in Watchers /\ shutdown /\ pc = "stopped" /\ kills = 0
  /\ i <= Len(new_videos) /\ i > 1

\* ---------------------------------------------------------------------------
\* uploader_odysee._tus_upload.  Sizes and offsets are counted in bytes; the
\* server's answers are any status and any Upload-Offset header.
\* ---------------------------------------------------------------------------
FileSizes == 0..MaxFileSize
ServerOffsets == 0..(MaxFileSize + 1)

NoHeader == -1
NothingSent == [offset |-> -1, pos |-> -1]

Returned_file_id == "file_id"
Raised == "raised"

CreateAnswers == {"exception", "http_error", "no_location", "created"}
PatchAnswers == {"exception", "http_error", "ok", "ok_bad_header"}

\* f.read(CHUNK_SIZE) at position p of a file of n bytes: the bytes read.
ReadLen(p, n) ==
  IF p >= n THEN 0 ELSE IF n - p < TUS_CHUNK THEN n - p ELSE TUS_CHUNK

tusrestv == <<prog, entries, BILIBILI_ENABLED, milev, textv, concv, namev, sheetv,
              exitv, idv, disk, pc, drv, upv, wake, wmem, envv, hist>>

InitTus ==
  /\ prog = None /\ entries = <<>> /\ BILIBILI_ENABLED = TRUE
  /\ fmt = None /\ records = <<>> /\ archive_text = NoFile
  /\ loaded = [read |-> FALSE, ids |-> {}]
  /\ wpc = <<>> /\ wi = <<>>
  /\ jobs = <<>> /\ written = <<>>
  /\ GOOGLE_SHEET_URL = "" /\ CellNotFound = TRUE /\ has_tab = FALSE
  /\ worksheet = <<>> /\ call = NoCall
  /\ exe = None /\ argv = <<>> /\ environ = {} /\ epc = None /\ targets = <<>>
  /\ started = {} /\ missing = {} /\ exit_code = <<>>
  /\ ipg = None /\ video_urls = <<>> /\ vid_ids = <<>> /\ ckpt = {} /\ seen = {}
  /\ pos = 0 /\ pass = 0 /\ skipped = {} /\ uploaded = {}
  /\ mpc = None /\ total_videos = 0 /\ DL_ARCHIVE = {} /\ mk = 1 /\ downloaded = {}
  /\ processed_count = 0 /\ hit_milestones = <<>> /\ notified = <<>>
  /\ count_at_start = 0
  /\ ProcessStart
  /\ file_size \in FileSizes
  /\ tpc = "create" /\ offset = 0 /\ fpos = 0 /\ sent = NothingSent
  /\ tret = None

\* Step 1: the POST that creates the upload slot.
CreateSlot ==
  /\ tpc = "create"
  /\ \E a \in CreateAnswers :
       IF a = "created"
       THEN tpc' = "loop" /\ UNCHANGED tret
       ELSE tpc' = "returned" /\ tret' = None
  /\ offset' = 0 /\ fpos' = 0
  /\ UNCHANGED <<file_size, sent, tusrestv>>

\* "while offset < file_size" is false, or f.read returned no bytes: the
\* upload is reported complete and the file id is returned.
UploadComplete ==
  /\ tpc = "loop"
  /\ ~(offset < file_size) \/ ReadLen(fpos, file_size) = 0
  /\ tpc' = "returned" /\ tret' = Returned_file_id
  /\ fpos' = fpos
  /\ UNCHANGED <<file_size, offset, sent, tusrestv>>

\* One pass of the chunk loop that sends a PATCH: the chunk read at the file
\* position goes out with Upload-Offset: offset.  "h" is the Upload-Offset
\* header of the answer (of the HEAD answer on the resume path), NoHeader
\* when there is none or the HEAD request failed.
PatchChunk ==
  /\ tpc = "loop" /\ offset < file_size /\ ReadLen(fpos, file_size) > 0
  /\ sent' = [offset |-> offset, pos |-> fpos]
  /\ \E a \in PatchAnswers, h \in ServerOffsets \cup {NoHeader} :
       LET n == ReadLen(fpos, file_size) IN
       CASE a = "exception" ->
              IF h # NoHeader /\ h > offset
              THEN /\ offset' = h /\ fpos' = h
                   /\ UNCHANGED <<tpc, tret>>
              ELSE /\ tpc' = "returned" /\ tret' = None
                   /\ fpos' = fpos + n /\ UNCHANGED offset
         [] a = "http_error" ->
              /\ h = NoHeader
              /\ tpc' = "returned" /\ tret' = None
              /\ fpos' = fpos + n /\ UNCHANGED offset
         [] a = "ok_bad_header" ->
              /\ h = NoHeader
              /\ tpc' = "returned" /\ tret' = Raised
              /\ fpos' = fpos + n /\ UNCHANGED offset
         [] a = "ok" ->
              /\ offset' = IF h # NoHeader THEN h ELSE offset + n
              /\ fpos' = fpos + n
              /\ UNCHANGED <<tpc, tret>>
  /\ UNCHANGED <<file_size, tusrestv>>

NextTus == CreateSlot \/ UploadComplete \/ PatchChunk

TusSpec == InitTus /\ [][NextTus]_vars

\* C37: _tus_upload returns a file id only when the offset the server has
\* acknowledged is the size of the file, and every PATCH is sent with an
\* Upload-Offset that is the file position of its chunk.
C37_OffsetsAgree ==
  /\ tret = Returned_file_id => offset = file_size
  /\ sent.offset = sent.pos

\* C38: a pass of the chunk loop that does not return leaves the file read
\* position strictly further on than it found it.
C38_PassAdvancesPosition ==
  [][(tpc = "loop" /\ tpc' = "loop") => fpos' > fpos]_vars

\* ---------------------------------------------------------------------------
\* main.check_for_new_videos: the milestone notifications of one run.  The
\* playlist has the entries 1..total_videos; the download archive holds some
\* of them and may hold ids that are not in the playlist.
\* ---------------------------------------------------------------------------
milestones == <<25, 50, 75, 100>>

\* The ids a download archive can hold: the entries and 0, an id that is not
\* in the playlist.
Archives(n) == SUBSET (0..n)

\* "processed_count >= (m / 100) * total_videos" and "current_percent >= m"
\* with current_percent = (processed_count / total_videos) * 100: m / 100 is
\* 0.25, 0.5, 0.75 or 1.0, so both comparisons are exact for these counts.
Reached(m, count, total) == count * 100 >= m * total

\* Variant: no milestone counts as hit when the run starts.
HitNone(count, total) == <<>>

\* hit_milestones = [m for m in milestones if processed_count >= ...]
HitAtStart(count, total) ==
  SelectSeq(milestones, LAMBDA m : Reached(m, count, total))

SeqRange(q) == {q[k] : k \in 1..Len(q)}

\* "for m in milestones: if current_percent >= m and m not in hit_milestones"
NewlyHit(count, total, hit) ==
  SelectSeq(milestones,
            LAMBDA m : Reached(m, count, total) /\ m \notin SeqRange(hit))

milerestv == <<prog, entries, BILIBILI_ENABLED, textv, concv, namev, sheetv,
               exitv, idv, tusv, disk, pc, drv, upv, wake, wmem, envv, hist>>

InitMilestones ==
  /\ prog = None /\ entries = <<>> /\ BILIBILI_ENABLED = TRUE
  /\ fmt = None /\ records = <<>> /\ archive_text = NoFile
  /\ loaded = [read |-> FALSE, ids |-> {}]
  /\ wpc = <<>> /\ wi = <<>>
  /\ jobs = <<>> /\ written = <<>>
  /\ GOOGLE_SHEET_URL = "" /\ CellNotFound = TRUE /\ has_tab = FALSE
  /\ worksheet = <<>> /\ call = NoCall
  /\ exe = None /\ argv = <<>> /\ environ = {} /\ epc = None /\ targets = <<>>
  /\ started = {} /\ missing = {} /\ exit_code = <<>>
  /\ ipg = None /\ video_urls = <<>> /\ vid_ids = <<>> /\ ckpt = {} /\ seen = {}
  /\ pos = 0 /\ pass = 0 /\ skipped = {} /\ uploaded = {}
  /\ tpc = None /\ file_size = 0 /\ offset = 0 /\ fpos = 0
  /\ sent = NothingSent /\ tret = None
  /\ ProcessStart
  /\ total_videos \in 1..MaxTotal
  /\ DL_ARCHIVE \in Archives(total_videos)
  /\ mpc = "start" /\ mk = 1 /\ downloaded = {} /\ processed_count = 0
  /\ hit_milestones = <<>> /\ notified = <<>> /\ count_at_start = 0

\* The playlist is listed and the archive read: downloaded, processed_count
\* and hit_milestones.
ReadDownloaded ==
  /\ mpc = "start"
  /\ downloaded' = DL_ARCHIVE
  /\ processed_count' = Cardinality(DL_ARCHIVE)
  /\ count_at_start' = Cardinality(DL_ARCHIVE)
  /\ hit_milestones' = HitAtStart(Cardinality(DL_ARCHIVE), total_videos)
  /\ mpc' = "loop" /\ mk' = 1
  /\ UNCHANGED <<total_videos, DL_ARCHIVE, notified, milerestv>>

\* One pass of "for entry in entries": an archived entry is skipped, a
\* failed download continues, a downloaded video is archived, counted and
\* the milestones are checked.
HandleEntry ==
  /\ mpc = "loop" /\ mk <= total_videos
  /\ mk' = mk + 1
  /\ IF mk \in downloaded
     THEN UNCHANGED <<DL_ARCHIVE, downloaded, processed_count, hit_milestones,
                      notified>>
     ELSE \E video_path \in BOOLEAN :
            IF ~video_path
            THEN UNCHANGED <<DL_ARCHIVE, downloaded, processed_count,
                             hit_milestones, notified>>
            ELSE LET now_hit == NewlyHit(processed_count + 1, total_videos,
                                         hit_milestones) IN
                 /\ DL_ARCHIVE' = DL_ARCHIVE \cup {mk}
                 /\ downloaded' = downloaded \cup {mk}
                 /\ processed_count' = processed_count + 1
                 /\ notified' = notified \o now_hit
                 /\ hit_milestones' = hit_milestones \o now_hit
  /\ UNCHANGED <<total_videos, mpc, count_at_start, milerestv>>

\* The for loop is over.
EndCheck ==
  /\ mpc = "loop" /\ mk > total_videos
  /\ mpc' = "done"
  /\ UNCHANGED <<total_videos, DL_ARCHIVE, mk, downloaded, processed_count,
                 hit_milestones, notified, count_at_start, milerestv>>

NextMilestones == ReadDownloaded \/ HandleEntry \/ EndCheck

MilestoneSpec == InitMilestones /\ [][NextMilestones]_vars

\* C39: in one run of check_for_new_videos no milestone is notified twice, no
\* milestone that the archive had reached when the run started is notified,
\* and the milestones are notified in increasing order.
C39_MilestonesOnceInOrder ==
  /\ \A a, b \in 1..Len(notified) : a < b => notified[a] < notified[b]
  /\ \A a \in 1..Len(notified) :
       ~(count_at_start * 100 >= notified[a] * total_videos)

\* A run that began with the first milestone reached has notified the three
\* others.
C39_Witness ==
  /\ mpc = "done" /\ total_videos = 4 /\ count_at_start = 1
  /\ notified = <<50, 75, 100>>
====
